---- MODULE Spec2Model ----
(***************************************************************************)
(* Verification model of the code-ally conversation core:                  *)
(*   Agent        (src/code_ally/agent/agent.py)                           *)
(*   ToolManager  (src/code_ally/agent/tool_manager.py)                    *)
(* The orchestrator (run_conversation / process_llm_response), the two     *)
(* batch dispatchers and ToolManager.execute_tool with its redundancy      *)
(* window are modelled as a state machine whose steps are the blocking     *)
(* points of the code: user input, a model request, a permission prompt,   *)
(* a tool execution.                                                       *)
(***************************************************************************)
EXTENDS Integers, Sequences, FiniteSets, TLC

\* ------------------------------------------------------------------------
\* Bounds of the model
\* ------------------------------------------------------------------------
\* model requests (initial and follow-up) sent in one run
MaxRequests == 3
\* tool calls the model issues in one run
MaxCalls == 2

\* ------------------------------------------------------------------------
\* Program constants
\* ------------------------------------------------------------------------
\* ToolManager.max_recent_calls
max_recent_calls == 5
\* ThreadPoolExecutor(max_workers=min(len(normalized_calls), 5))
max_workers_cap == 5

\* ------------------------------------------------------------------------
\* Python values
\* ------------------------------------------------------------------------
\* A dict is a sequence of <<key, value>> pairs in insertion order; a value
\* that is no dict (a JSON list) has type "list" and no items.
Dict(items) == [type |-> "dict", items |-> items]
ListValue == [type |-> "list", items |-> <<>>]

\* a value that is neither dict nor list: type is "int", "str" or "NoneType"
Scalar(type) == [type |-> type, items |-> <<>>]

\* the values of a dict are strings; an int n and None are written so that they
\* differ from every str of the model
IntValue(digits) == "<int " \o digits \o ">"
NoneValue == "<None>"

\* str ordering of the argument keys used by the tools ("command" <
\* "content" < "file_path" < "path" < "raw_args").
KeyRank(k) ==
    CASE k = "a" -> 0
      [] k = "command" -> 1
      [] k = "content" -> 2
      [] k = "file_path" -> 3
      [] k = "path" -> 4
      [] k = "raw_args" -> 5

RECURSIVE InsertSorted(_, _)
InsertSorted(item, s) ==
    IF s = <<>> THEN <<item>>
    ELSE IF KeyRank(item[1]) <= KeyRank(Head(s)[1]) THEN <<item>> \o s
    ELSE <<Head(s)>> \o InsertSorted(item, Tail(s))

RECURSIVE sorted(_)
\* sorted(arguments.items()): the items ordered by key
sorted(items) ==
    IF items = <<>> THEN <<>>
    ELSE InsertSorted(Head(items), sorted(Tail(items)))

\* ------------------------------------------------------------------------
\* The tools the ToolManager was constructed with (name -> requires_confirmation)
\* ------------------------------------------------------------------------
tools == [ls |-> FALSE, file_read |-> FALSE, bash |-> TRUE]

\* ------------------------------------------------------------------------
\* Raw tool calls as the model supplies them
\* ------------------------------------------------------------------------
\* arguments_raw: form "native" is the dict value, form "str" is a string, form
\* "null" is None. A string is carried in text as the sequence of its lexemes:
\* each of { } [ ] : , = ' " and the blank is a lexeme, and so is every maximal
\* run of other characters.
RawArgs(form, value, text) == [form |-> form, value |-> value, text |-> text]

DQ == "\""

Str(text) == RawArgs("str", Dict(<<>>), text)

RawCall(id, name, args) == [id |-> id, function |-> [name |-> name, arguments |-> args]]

\* a tool call that carries no "id" key
NoId == "<no id>"

\* {"file_path": "/a"}
c_read ==
    RawCall("call_read", "file_read",
            Str(<<"{", DQ, "file_path", DQ, ":", " ", DQ, "/a", DQ, "}">>))
c_bash == RawCall("call_bash", "bash", RawArgs("native", Dict(<<<<"command", "make">>>>), <<>>))
c_blank == RawCall("call_blank", "", RawArgs("native", Dict(<<>>), <<>>))
\* [1]
c_list == RawCall("call_list", "file_read", Str(<<"[", "1", "]">>))

\* a call of a confirming tool whose arguments are the JSON list [1]
c_bash_list == RawCall("call_bash_list", "bash", Str(<<"[", "1", "]">>))

Calls == {c_read, c_bash, c_blank, c_list, c_bash_list}

RECURSIVE SeqsUpTo(_, _)
SeqsUpTo(S, n) ==
    IF n = 0 THEN {<<>>}
    ELSE LET shorter == SeqsUpTo(S, n - 1)
         IN shorter \cup {Append(s, x) : s \in {t \in shorter : Len(t) = n - 1}, x \in S}

Batches == SeqsUpTo(Calls, MaxCalls) \ {<<>>}

\* ------------------------------------------------------------------------
\* json.loads on the strings of the model
\* ------------------------------------------------------------------------
\* what json.loads does: it returns a value or raises
JsonValue(value) == [raised |-> "none", value |-> value]
JsonError(exception) == [raised |-> exception, value |-> Dict(<<>>)]

\* JSON whitespace is skipped between lexemes
RECURSIVE SkipBlanks(_)
SkipBlanks(text) ==
    IF text = <<>> THEN <<>>
    ELSE IF Head(text) = " " THEN SkipBlanks(Tail(text))
    ELSE <<Head(text)>> \o SkipBlanks(Tail(text))

\* the pieces of text between the occurrences of sep
RECURSIVE Split(_, _)
Split(text, sep) ==
    IF \A i \in 1..Len(text) : text[i] # sep THEN <<text>>
    ELSE LET k == CHOOSE i \in 1..Len(text) :
                    text[i] = sep /\ \A j \in 1..(i - 1) : text[j] # sep
         IN \* rest is drawn from a singleton set: it is computed once
            CHOOSE pieces \in {<<SubSeq(text, 1, k - 1)>> \o Split(rest, sep) :
                                  rest \in {SubSeq(text, k + 1, Len(text))}} : TRUE

Punctuation == {"{", "}", "[", "]", ":", ",", "=", "'", DQ, " "}

IsNumber(lexeme) == lexeme \in {"0", "1", "2"}

\* a JSON string literal: "chars" or ""
IsStringLiteral(text) ==
    \/ text = <<DQ, DQ>>
    \/ Len(text) = 3 /\ text[1] = DQ /\ text[3] = DQ /\ text[2] \notin Punctuation

StringOf(text) == IF Len(text) = 3 THEN text[2] ELSE ""

\* a JSON value that is no object and no array
IsScalarLiteral(text) ==
    \/ Len(text) = 1 /\ (IsNumber(text[1]) \/ text[1] = "null")
    \/ IsStringLiteral(text)

\* the Python value of a scalar literal as it is stored in a dict
ScalarItem(text) ==
    IF IsStringLiteral(text) THEN StringOf(text)
    ELSE IF text[1] = "null" THEN NoneValue
    ELSE IntValue(text[1])

\* a member of an object: "key": scalar
IsMember(text) ==
    /\ Len(text) >= 5
    /\ IsStringLiteral(SubSeq(text, 1, 3))
    /\ text[4] = ":"
    /\ IsScalarLiteral(SubSeq(text, 5, Len(text)))

\* json.loads(s) for a str s whose objects and arrays hold scalars only. The
\* lexemes t, the text inner between the outer brackets and its pieces between
\* the commas are drawn from singleton sets, so that each is computed once.
json_loads_str(text) ==
    CHOOSE loaded \in UNION {UNION {{
        IF t = <<>> THEN JsonError("JSONDecodeError")
        ELSE IF IsScalarLiteral(t)
        THEN JsonValue(Scalar(IF IsStringLiteral(t) THEN "str"
                              ELSE IF t[1] = "null" THEN "NoneType" ELSE "int"))
        ELSE IF Len(t) >= 2 /\ t[1] = "{" /\ t[Len(t)] = "}"
        THEN IF inner = <<>> THEN JsonValue(Dict(<<>>))
             ELSE IF \A i \in 1..Len(pieces) : IsMember(pieces[i])
             THEN JsonValue(Dict([i \in 1..Len(pieces) |->
                     <<pieces[i][2], ScalarItem(SubSeq(pieces[i], 5, Len(pieces[i])))>>]))
             ELSE JsonError("JSONDecodeError")
        ELSE IF Len(t) >= 2 /\ t[1] = "[" /\ t[Len(t)] = "]"
        THEN IF inner = <<>> \/ \A i \in 1..Len(pieces) : IsScalarLiteral(pieces[i])
             THEN JsonValue(ListValue)
             ELSE JsonError("JSONDecodeError")
        ELSE JsonError("JSONDecodeError")
            : pieces \in {Split(inner, ",")}}
            : inner \in {SubSeq(t, 2, Len(t) - 1)}}
            : t \in {SkipBlanks(text)}} : TRUE

\* json.loads(arguments_raw): None is no str, bytes or bytearray
json_loads(arguments_raw) ==
    IF arguments_raw.form = "null" THEN JsonError("TypeError")
    ELSE json_loads_str(arguments_raw.text)

\* arguments_raw.replace("'", '"')
replace_quotes(arguments_raw) ==
    [arguments_raw EXCEPT !.text =
        [i \in 1..Len(arguments_raw.text) |->
            IF arguments_raw.text[i] = "'" THEN DQ ELSE arguments_raw.text[i]]]

\* the Python str of a string of the model
RECURSIVE Join(_)
Join(text) == IF text = <<>> THEN "" ELSE Head(text) \o Join(Tail(text))

\* ------------------------------------------------------------------------
\* Agent._normalize_tool_call
\* ------------------------------------------------------------------------
\* f"auto-id-{int(time.time())}" and f"manual-id-{int(time.time())}"
auto_id(now) == "auto-id-" \o ToString(now)
manual_id(now) == "manual-id-" \o ToString(now)

\* lines 254-268 with a second json.loads that is not guarded
parse_arguments_unguarded(arguments_raw) ==
    IF arguments_raw.form = "native" THEN JsonValue(arguments_raw.value)
    ELSE LET first == json_loads(arguments_raw)
         IN IF first.raised # "JSONDecodeError" THEN first
            ELSE json_loads(replace_quotes(arguments_raw))

\* lines 254-268: the arguments of the call
parse_arguments(arguments_raw) ==
    IF arguments_raw.form = "native" THEN JsonValue(arguments_raw.value)
    ELSE LET first == json_loads(arguments_raw)
             second == json_loads(replace_quotes(arguments_raw))
         IN IF first.raised # "JSONDecodeError" THEN first
            ELSE IF second.raised = "none" THEN second
            ELSE JsonValue(Dict(<<<<"raw_args", Join(arguments_raw.text)>>>>))

\* a call in the nested format has a non-empty "function" dict; a call in the
\* flat format has "name" and "arguments" at the top level
_normalize_tool_call(tool_call, now) ==
    LET call_id == IF tool_call.id = NoId THEN auto_id(now) ELSE tool_call.id
        function_call == IF tool_call.function = <<>> /\ "name" \in DOMAIN tool_call
                         THEN tool_call
                         ELSE tool_call.function
        arguments == parse_arguments(function_call.arguments)
    IN [call_id |-> call_id, tool_name |-> function_call.name,
        arguments |-> arguments.value, raised |-> arguments.raised]

\* ------------------------------------------------------------------------
\* Permission Gate (PermissionManager / TrustManager)
\* ------------------------------------------------------------------------
\* What one consultation of the gate can answer: True, False, or
\* PermissionDeniedError raised.
GateAnswers == {"grant", "deny", "raise"}

\* check_permission(tool_name, arguments, batch_id): with the batch_id of an
\* approved batch the re-check is a no-op.
check_permission(answer, batch_id) == IF batch_id # "" THEN "grant" ELSE answer

\* prompt_for_parallel_operations: one decision for the whole batch
BatchAnswers == BOOLEAN

\* ------------------------------------------------------------------------
\* ToolManager
\* ------------------------------------------------------------------------
\* what tool.execute(**arguments) can do: return a result or raise
ToolOutcomes == {"ok", "raise"}

_create_error_result(error_message) == [success |-> FALSE, error |-> error_message]

NoResult == [success |-> FALSE, error |-> <<>>]

_is_valid_tool(tool_name) == tool_name \in DOMAIN tools

current_call(tool_name, arguments) == <<tool_name, sorted(arguments.items)>>

\* _is_redundant_call that knows the ls rule only
_is_redundant_call_ls_only(window, tool_name, arguments) ==
    /\ tool_name = "ls"
    /\ \E i \in 1..Len(window) : window[i][1] = "ls"

_is_redundant_call(window, tool_name, arguments) ==
    \/ /\ tool_name = "ls"
       /\ \E i \in 1..Len(window) : window[i][1] = "ls"
    \/ \E i \in 1..Len(window) : window[i] = current_call(tool_name, arguments)

\* is_redundant_call without the ls rule
is_redundant_call_exact_only(window, tool_name, arguments) ==
    \E i \in 1..Len(window) : window[i] = current_call(tool_name, arguments)

\* the public twins of lines 196-229
is_redundant_call(window, tool_name, arguments) ==
    \/ /\ tool_name = "ls"
       /\ \E i \in 1..Len(window) : window[i][1] = "ls"
    \/ \E i \in 1..Len(window) : window[i] = current_call(tool_name, arguments)

_handle_redundant_call(tool_name, check_context_msg) ==
    [success |-> FALSE,
     error |-> IF check_context_msg
               THEN <<"Redundant call to ", tool_name, ". Directory was already shown.",
                      " Please check your context for the previous result.">>
               ELSE <<"Redundant call to ", tool_name, ". Directory was already shown.">>]

_record_tool_call(window, tool_name, arguments) ==
    LET appended == Append(window, current_call(tool_name, arguments))
    IN IF Len(appended) > max_recent_calls
       THEN SubSeq(appended, Len(appended) - max_recent_calls + 1, Len(appended))
       ELSE appended

\* record_tool_call that never drops the oldest record
record_tool_call_untrimmed(window, tool_name, arguments) ==
    Append(window, current_call(tool_name, arguments))

record_tool_call(window, tool_name, arguments) ==
    LET appended == Append(window, current_call(tool_name, arguments))
    IN IF Len(appended) > max_recent_calls
       THEN SubSeq(appended, Len(appended) - max_recent_calls + 1, Len(appended))
       ELSE appended

\* _check_permissions that never consults the gate
_check_permissions_ungated(tool_name, arguments, batch_id, answer) == "grant"

_check_permissions(tool_name, arguments, batch_id, answer) ==
    IF ~tools[tool_name] THEN "grant" ELSE check_permission(answer, batch_id)

\* what a method does: it returns a result or raises an exception
Returned(result) == [raised |-> "none", result |-> result]
Raised(exception) == [raised |-> exception, result |-> NoResult]

\* _perform_tool_execution whose handlers catch json.JSONDecodeError only
_perform_tool_execution_json_only(tool_name, arguments, tool_outcome) ==
    CASE tool_outcome = "ok" -> Returned([success |-> TRUE, error |-> <<>>])
      [] tool_outcome = "raise_json" ->
            Returned(_create_error_result(<<"JSON Error executing ", tool_name>>))
      [] OTHER -> Raised("Exception")

_perform_tool_execution(tool_name, arguments, tool_outcome) ==
    CASE tool_outcome = "ok" -> Returned([success |-> TRUE, error |-> <<>>])
      [] tool_outcome = "raise_json" ->
            Returned(_create_error_result(<<"JSON Error executing ", tool_name>>))
      [] OTHER -> Returned(_create_error_result(<<"Error executing ", tool_name>>))

\* What one call of execute_tool does: the exception it raises ("none" when it
\* returns), its result, the redundancy window afterwards, whether the call was
\* recorded in it, whether the gate
\* was reached for a tool that requires confirmation and whether tool.execute
\* was invoked.
Effect(raised, result, window, recorded, asked, executed) ==
    [raised |-> raised, result |-> result, window |-> window, recorded |-> recorded,
     asked |-> asked, executed |-> executed]

\* execute_tool that records the call before it looks the tool up
execute_tool_records_first(window, tool_name, arguments, context_msg, batch_id, answer, tool_outcome) ==
    IF arguments.type # "dict"
    THEN Effect("AttributeError", NoResult, window, FALSE, FALSE, FALSE)
    ELSE IF ~_is_valid_tool(tool_name)
    THEN Effect("none", _create_error_result(<<"Unknown tool: ", tool_name>>),
                _record_tool_call(window, tool_name, arguments), TRUE, FALSE, FALSE)
    ELSE IF _is_redundant_call(window, tool_name, arguments)
    THEN Effect("none", _handle_redundant_call(tool_name, context_msg), window,
                FALSE, FALSE, FALSE)
    ELSE LET recorded == _record_tool_call(window, tool_name, arguments)
             permission == _check_permissions(tool_name, arguments, batch_id, answer)
         IN CASE permission = "raise" ->
                     Effect("PermissionDeniedError", NoResult, recorded, TRUE, TRUE, FALSE)
              [] permission = "deny" ->
                     Effect("none", _create_error_result(<<"Permission denied for ", tool_name>>),
                            recorded, TRUE, TRUE, FALSE)
              [] OTHER ->
                     LET done == _perform_tool_execution(tool_name, arguments, tool_outcome)
                     IN Effect(done.raised, done.result, recorded, TRUE, tools[tool_name], TRUE)

\* execute_tool that records the call only once the gate has let it through
execute_tool_records_after_gate(window, tool_name, arguments, context_msg, batch_id, answer, tool_outcome) ==
    IF ~_is_valid_tool(tool_name)
    THEN Effect("none", _create_error_result(<<"Unknown tool: ", tool_name>>), window,
                FALSE, FALSE, FALSE)
    ELSE IF arguments.type # "dict"
    THEN Effect("AttributeError", NoResult, window, FALSE, FALSE, FALSE)
    ELSE IF _is_redundant_call(window, tool_name, arguments)
    THEN Effect("none", _handle_redundant_call(tool_name, context_msg), window,
                FALSE, FALSE, FALSE)
    ELSE LET permission == _check_permissions(tool_name, arguments, batch_id, answer)
         IN CASE permission = "raise" ->
                     Effect("PermissionDeniedError", NoResult, window, FALSE, TRUE, FALSE)
              [] permission = "deny" ->
                     Effect("none", _create_error_result(<<"Permission denied for ", tool_name>>),
                            window, FALSE, TRUE, FALSE)
              [] OTHER ->
                     LET done == _perform_tool_execution(tool_name, arguments, tool_outcome)
                     IN Effect(done.raised, done.result,
                               _record_tool_call(window, tool_name, arguments), TRUE,
                               tools[tool_name], TRUE)

execute_tool(window, tool_name, arguments, check_context_msg, batch_id, answer, tool_outcome) ==
    IF ~_is_valid_tool(tool_name)
    THEN Effect("none", _create_error_result(<<"Unknown tool: ", tool_name>>), window,
                FALSE, FALSE, FALSE)
    ELSE IF arguments.type # "dict"
    THEN Effect("AttributeError", NoResult, window, FALSE, FALSE, FALSE)
    ELSE IF _is_redundant_call(window, tool_name, arguments)
    THEN Effect("none", _handle_redundant_call(tool_name, check_context_msg), window,
                FALSE, FALSE, FALSE)
    ELSE LET recorded == _record_tool_call(window, tool_name, arguments)
             permission == _check_permissions(tool_name, arguments, batch_id, answer)
         IN CASE permission = "raise" ->
                     Effect("PermissionDeniedError", NoResult, recorded, TRUE, TRUE, FALSE)
              [] permission = "deny" ->
                     Effect("none", _create_error_result(<<"Permission denied for ", tool_name>>),
                            recorded, TRUE, TRUE, FALSE)
              [] OTHER ->
                     LET done == _perform_tool_execution(tool_name, arguments, tool_outcome)
                     IN Effect(done.raised, done.result, recorded, TRUE, tools[tool_name], TRUE)

\* ------------------------------------------------------------------------
\* Messages and model responses
\* ------------------------------------------------------------------------
Message(role, content, tool_call_id, name, calls, function_call) ==
    [role |-> role, content |-> content, tool_call_id |-> tool_call_id, name |-> name,
     tool_calls |-> calls, function_call |-> function_call]

SystemMessage == Message("system", "system prompt", "", "", <<>>, <<>>)
UserMessage == Message("user", "user input", "", "", <<>>, <<>>)

PermissionDenialSentinel == "[Request interrupted by user due to permission denial]"

InterruptSentinels ==
    {"[Request interrupted by user]", "[Request interrupted by user for tool use]",
     PermissionDenialSentinel}

SentinelMessage == Message("assistant", PermissionDenialSentinel, "", "", <<>>, <<>>)

UnderstoodMessage ==
    Message("assistant",
            "I understand you denied permission. Let me know how I can better assist you.",
            "", "", <<>>, <<>>)

\* the text of a tool-role message: json.dumps of the result
ResultText(tool_name, result) == IF result.success THEN "ok" ELSE result.error[1]

ToolMessage(call_id, tool_name, result) ==
    Message("tool", ResultText(tool_name, result), call_id, tool_name, <<>>, <<>>)

\* A response of the model client: content, tool_calls (absent: <<>>),
\* function_call (absent: <<>>, else one {name, arguments} object), interrupted.
Response(content, calls, function_call, interrupted) ==
    [content |-> content, tool_calls |-> calls, function_call |-> function_call,
     interrupted |-> interrupted]

TextResponses == {Response("text", <<>>, <<>>, FALSE)}

\* a sentinel as a client may deliver it, with white space around it
Padded(sentinel) == " " \o sentinel \o " "

\* flagged responses: the flag alone, the flag on a partial answer that carries
\* a tool call, and each sentinel as content, bare and padded
InterruptedResponses ==
    {Response("", <<>>, <<>>, TRUE), Response("partial", <<c_read>>, <<>>, TRUE)}
        \cup {Response(c, <<>>, <<>>, FALSE) : c \in InterruptSentinels}
        \cup {Response(Padded(c), <<c_bash>>, <<>>, FALSE) : c \in InterruptSentinels}

ToolCallResponses ==
    {Response("", b, <<>>, FALSE) : b \in Batches}
        \cup {Response("", <<>>, <<c.function>>, FALSE) : c \in {c_read, c_bash}}

\* the test of lines 194-197 and 569-572
\* str.strip() on the contents the client delivers: the white space around a
\* padded sentinel is removed, the other contents have none
strip(content) ==
    IF \E c \in InterruptSentinels : content = Padded(c)
    THEN CHOOSE c \in InterruptSentinels : content = Padded(c)
    ELSE content

\* a test that looks at the interrupted flag only
IsInterrupted_flag_only(response) == response.interrupted

IsInterrupted(response) == strip(response.content) \in InterruptSentinels \/ response.interrupted

\* response.copy() as appended to the log
AssistantMessage(response) ==
    Message("assistant", response.content, "", "", response.tool_calls, response.function_call)

\* lines 136-152: where the tool calls of a response are found
ExtractToolCalls(response, now) ==
    IF response.tool_calls # <<>> THEN response.tool_calls
    ELSE IF response.function_call # <<>>
    THEN <<[id |-> manual_id(now), function |-> response.function_call[1]]>>
    ELSE <<>>

\* ------------------------------------------------------------------------
\* CommandHandler.compact_conversation (src/code_ally/agent.py)
\* ------------------------------------------------------------------------
\* len(messages) < 4: nothing to compact
compact_min_messages == 4
\* messages[-6:]
compact_keep_recent == 6

\* {"role": "system", "content": get_system_message("compaction_notice")}
CompactionNotice == Message("system", "compaction_notice", "", "", <<>>, <<>>)

\* the first message of the log with the given role, as a list of 0 or 1 message
FirstWithRole(log, role) ==
    LET found == {i \in 1..Len(log) : log[i].role = role}
    IN IF found = {} THEN <<>>
       ELSE <<log[CHOOSE i \in found : \A j \in found : i <= j]>>

\* messages[-n:]
Tail_of(log, n) == IF Len(log) <= n THEN log ELSE SubSeq(log, Len(log) - n + 1, Len(log))

\* compact_conversation that also leaves a log of exactly 4 messages alone
compact_conversation_off_by_one(log) ==
    IF Len(log) <= compact_min_messages THEN log
    ELSE FirstWithRole(log, "system") \o FirstWithRole(log, "user") \o <<CompactionNotice>>
            \o Tail_of(log, compact_keep_recent)

compact_conversation(log) ==
    IF Len(log) < compact_min_messages THEN log
    ELSE FirstWithRole(log, "system") \o FirstWithRole(log, "user") \o <<CompactionNotice>>
            \o Tail_of(log, compact_keep_recent)

\* time.time() after a compaction that changed the log (line 975); a log of
\* fewer than 4 messages returns at line 948 and leaves the time alone
compaction_time(log, now, last_compaction_time) ==
    IF Len(log) < compact_min_messages THEN last_compaction_time ELSE now

\* ------------------------------------------------------------------------
\* TokenManager (src/code_ally/agent.py)
\* ------------------------------------------------------------------------
\* token_buffer_ratio = 0.95, in percent
token_buffer_ratio == 95
tokens_per_message == 4
tokens_per_name == 1
\* chars_per_token = 4.0
chars_per_token == 4
min_compaction_interval == 300

\* The clock of the model counts the seconds since the session started, and the
\* session starts more than min_compaction_interval after the epoch: this is
\* last_compaction_time = 0 on that clock.
Epoch == 0 - min_compaction_interval

\* len(json.dumps(v)) for a value of a dict: an int, None or a str
json_dumps_value_len(v) ==
    IF v \in {IntValue("0"), IntValue("1"), IntValue("2")} THEN 1
    ELSE IF v = NoneValue THEN 4
    ELSE Len(v) + 2

\* len(json.dumps(d)) for a dict d: {"k": v, "k": v}
RECURSIVE json_dumps_items_len(_)
json_dumps_items_len(items) ==
    IF items = <<>> THEN 0
    ELSE Len(Head(items)[1]) + 4 + json_dumps_value_len(Head(items)[2])
            + (IF Len(items) > 1 THEN 2 ELSE 0) + json_dumps_items_len(Tail(items))

json_dumps_len(value) == 2 + json_dumps_items_len(value.items)

\* lines 121-130: the characters counted for the arguments of a tool call
tool_call_arguments_len(arguments_raw) ==
    CASE arguments_raw.form = "str" -> Len(Join(arguments_raw.text))
      [] arguments_raw.form = "native" -> json_dumps_len(arguments_raw.value)
      [] OTHER -> 0

\* lines 107-110: len(function_call["arguments"]) of a str or of a dict
function_call_arguments_len(arguments_raw) ==
    IF arguments_raw.form = "str" THEN Len(Join(arguments_raw.text))
    ELSE Len(arguments_raw.value.items)

\* lines 114-130, in characters
RECURSIVE tool_calls_len(_)
tool_calls_len(calls) ==
    IF calls = <<>> THEN 0
    ELSE Len(Head(calls).function.name) + tool_call_arguments_len(Head(calls).function.arguments)
            + tool_calls_len(Tail(calls))

\* lines 86-130: message_tokens, counted in units of 1/chars_per_token token so
\* that len(...) / 4.0 stays an integer
message_tokens(message) ==
    chars_per_token * (tokens_per_message + tokens_per_name)
        + Len(message.content)
        + (IF message.function_call = <<>> THEN 0
           ELSE Len(message.function_call[1].name)
                    + function_call_arguments_len(message.function_call[1].arguments))
        + tool_calls_len(message.tool_calls)

EmptyCache == [cache_key \in {} |-> 0]

\* the loop of lines 75-137 that never stores a count in the cache
RECURSIVE estimate_loop_without_store(_, _)
estimate_loop_without_store(cache, log) ==
    IF log = <<>> THEN [counts |-> <<>>, cache |-> cache]
    ELSE LET message == Head(log)
             cache_key == <<message.role, message.content>>
             counted == IF cache_key \in DOMAIN cache THEN cache[cache_key]
                        ELSE message_tokens(message)
             rest == estimate_loop_without_store(cache, Tail(log))
         IN [counts |-> <<counted>> \o rest.counts, cache |-> rest.cache]

\* the loop of lines 75-137: what each message adds to token_count, and the
\* cache afterwards
RECURSIVE estimate_loop(_, _)
estimate_loop(cache, log) ==
    IF log = <<>> THEN [counts |-> <<>>, cache |-> cache]
    ELSE LET message == Head(log)
             cache_key == <<message.role, message.content>>
             counted == IF cache_key \in DOMAIN cache THEN cache[cache_key]
                        ELSE message_tokens(message)
             stored == IF cache_key \in DOMAIN cache THEN cache
                       ELSE cache @@ (cache_key :> counted)
         IN \* stored and rest are drawn from singleton sets: each is computed once
            CHOOSE run \in {[counts |-> <<counted>> \o rest.counts, cache |-> rest.cache] :
                                rest \in {estimate_loop(s, Tail(log)) : s \in {stored}}} : TRUE

RECURSIVE Sum(_)
Sum(counts) == IF counts = <<>> THEN 0 ELSE Head(counts) + Sum(Tail(counts))

\* max(1, int(token_count)); the cache is the second result
estimate_tokens(cache, log) ==
    LET run == estimate_loop(cache, log)
        token_count == Sum(run.counts) \div chars_per_token
    IN [tokens |-> IF token_count < 1 THEN 1 ELSE token_count, cache |-> run.cache]

\* should_compact with the two tests joined by "or"
should_compact_either(now, last_compaction_time, estimated_tokens, context_size) ==
    \/ now - last_compaction_time >= min_compaction_interval
    \/ estimated_tokens * 100 > token_buffer_ratio * context_size

\* estimated_tokens / context_size > 0.95, compared as integers
should_compact(now, last_compaction_time, estimated_tokens, context_size) ==
    IF now - last_compaction_time < min_compaction_interval THEN FALSE
    ELSE estimated_tokens * 100 > token_buffer_ratio * context_size

\* lines 497-503, the loop top of run_conversation: the log, the compaction
\* time and what update_token_count wrote when control reaches the prompt
loop_top(log, now, last_compaction_time, estimated_tokens, cache, context_size) ==
    IF should_compact(now, last_compaction_time, estimated_tokens, context_size)
    THEN [compacted |-> TRUE,
          messages |-> compact_conversation(log),
          last_compaction_time |-> compaction_time(log, now, last_compaction_time),
          estimated_tokens |-> estimate_tokens(cache, compact_conversation(log)).tokens,
          cache |-> estimate_tokens(cache, compact_conversation(log)).cache]
    ELSE [compacted |-> FALSE, messages |-> log, last_compaction_time |-> last_compaction_time,
          estimated_tokens |-> estimated_tokens, cache |-> cache]

\* Agent.check_context_msg (constructor default)
check_context_msg == TRUE


\* ------------------------------------------------------------------------
\* State
\* ------------------------------------------------------------------------
VARIABLES
    messages,             \* Agent.messages
    request_in_progress,  \* Agent.request_in_progress
    recent_tool_calls,    \* ToolManager.recent_tool_calls
    parallel_tools,       \* Agent.parallel_tools
    pc,                   \* where the orchestrator is
    tool_calls,           \* the tool calls of the response being dispatched
    idx,                  \* sequential dispatch: index of the next call
    futures,              \* parallel dispatch: call index -> future
    batch_id,             \* parallel dispatch: batch identifier ("" when none)
    batchStart,           \* history: index in messages of the assistant message of the batch
    outcome,              \* history: how the dispatch of this turn ended
    executed,             \* history: call indices of the batch whose tool.execute was invoked
    gate_log,             \* history: <<call index, answer>> of each per-call answer of the gate
    batch_decision,       \* history: the gate's answer to the consolidated request
    prompted,             \* history: the consolidated requests issued for the batch
    lastSent,             \* history: message list of the last model request
    sends,                \* history: number of model requests sent
    issued,               \* history: number of tool calls the model has issued
    lastEvent,            \* history: what ended the last model request
    records,              \* history: number of record_tool_call operations applied directly
    verdict,              \* history: the last is_redundant_call evaluation
    history,              \* history: the calls recorded directly, oldest first
    clock,                \* int(time.time())
    raw_batch,            \* the tool calls handed to the normalization loop
    normalized,           \* history: what _normalize_tool_call did for each of them
    appended,             \* history: number of messages appended directly
    compactions,          \* history: number of compactions applied directly
    lastCompaction,       \* history: the log before and after the last compaction
    lastExecution,        \* history: the last execute_tool call applied directly and its effect
    executions,           \* history: number of execute_tool calls applied directly
    estimated_tokens,     \* TokenManager.estimated_tokens
    _token_cache,         \* TokenManager._token_cache
    last_compaction_time, \* TokenManager.last_compaction_time
    context_size,         \* TokenManager.context_size
    autoTimes,            \* history: when the automatic compactions that changed the log ran
    as_completed,         \* parallel dispatch: the generator of line 411
    first_finished        \* history: the call of the running batch that finished first (0: none)

vars ==
    <<messages, request_in_progress, recent_tool_calls, parallel_tools, pc, tool_calls, idx,
      futures, batch_id, batchStart, outcome, executed, gate_log, batch_decision, prompted,
      lastSent,
      sends, issued, lastEvent, records, verdict, history,
      lastExecution, executions, clock, raw_batch, normalized, appended, compactions,
      lastCompaction, estimated_tokens, _token_cache, last_compaction_time, context_size,
      autoTimes, as_completed, first_finished>>

poolVars == <<as_completed, first_finished>>

dispatchVars ==
    <<tool_calls, idx, futures, batch_id, batchStart, outcome, executed, gate_log,
      batch_decision, prompted, poolVars>>

requestVars == <<request_in_progress, lastSent, sends, pc>>

filterVars == <<records, verdict, history>>

executeVars == <<lastExecution, executions>>

normalizeVars == <<raw_batch, normalized>>

compactVars == <<appended, compactions, lastCompaction>>

\* what update_token_count writes
tokenVars == <<estimated_tokens, _token_cache>>

budgetVars == <<tokenVars, last_compaction_time, context_size, autoTimes>>

componentVars == <<filterVars, executeVars, clock, normalizeVars, compactVars>>

NoFutures == [i \in {} |-> NoResult]

\* self.token_manager.update_token_count(log)
update_token_count(cache, log) ==
    LET estimate == estimate_tokens(cache, log)
    IN /\ estimated_tokens' = estimate.tokens
       /\ _token_cache' = estimate.cache

\* model_client.context_size: a context window that no log of the model fills,
\* and one that a few messages fill
LargeContext == 4096
SmallContext == 40

NoCompaction == [done |-> FALSE, before |-> <<>>, after |-> <<>>]

\* as_completed has not been called: nothing to yield
NoGenerator == [entered |-> FALSE, queue |-> <<>>]

NoExecution ==
    [called |-> FALSE, tool_name |-> "", arguments |-> Dict(<<>>), window |-> <<>>,
     check_context_msg |-> TRUE, answer |-> "grant", tool_outcome |-> "ok",
     effect |-> [raised |-> "none", result |-> NoResult, window |-> <<>>, recorded |-> FALSE,
                 asked |-> FALSE, executed |-> FALSE]]

NoVerdict == [checked |-> FALSE, tool_name |-> "", arguments |-> Dict(<<>>),
              public |-> FALSE, private |-> FALSE]

\* Agent.__init__ (with a system prompt) and ToolManager.__init__
Init ==
    /\ messages = <<SystemMessage>>
    /\ request_in_progress = FALSE
    /\ recent_tool_calls = <<>>
    /\ parallel_tools \in BOOLEAN
    /\ pc = "input"
    /\ tool_calls = <<>>
    /\ idx = 1
    /\ futures = NoFutures
    /\ batch_id = ""
    /\ batchStart = 0
    /\ outcome = "none"
    /\ executed = {}
    /\ gate_log = {}
    /\ batch_decision = "none"
    /\ prompted = <<>>
    /\ lastSent = <<>>
    /\ sends = 0
    /\ issued = 0
    /\ lastEvent = "none"
    /\ records = 0
    /\ verdict = NoVerdict
    /\ history = <<>>
    /\ lastExecution = NoExecution
    /\ executions = 0
    /\ clock = 0
    /\ raw_batch = <<>>
    /\ normalized = <<>>
    /\ appended = 0
    /\ compactions = 0
    /\ lastCompaction = NoCompaction
    /\ estimated_tokens = estimate_tokens(EmptyCache, messages).tokens
    /\ _token_cache = estimate_tokens(EmptyCache, messages).cache
    /\ last_compaction_time = Epoch
    /\ context_size = LargeContext
    /\ autoTimes = <<>>
    /\ as_completed = NoGenerator
    /\ first_finished = 0

\* ------------------------------------------------------------------------
\* Agent.process_llm_response
\* ------------------------------------------------------------------------
\* lines 184-190: the follow-up request is sent with the current log
SendFollowUp(log) ==
    /\ request_in_progress' = TRUE
    /\ lastSent' = log
    /\ sends' = sends + 1
    /\ pc' = "followup"

\* lines 162-165
UsesParallel(calls) == parallel_tools /\ Len(calls) > 1

\* lines 136-168 and 233-237: a response that was not flagged interrupted
process_llm_response(response) ==
    \E calls \in {ExtractToolCalls(response, clock)} :
       /\ messages' = Append(messages, AssistantMessage(response))
       /\ update_token_count(_token_cache, Append(messages, AssistantMessage(response)))
       /\ issued' = issued + Len(calls)
       /\ IF calls # <<>>
          THEN /\ tool_calls' = calls
               /\ idx' = 1
               /\ futures' = NoFutures
               /\ batch_id' = ""
               /\ batchStart' = Len(messages) + 1
               /\ outcome' = "running"
               /\ executed' = {}
               /\ gate_log' = {}
               /\ batch_decision' = "none"
               /\ prompted' = <<>>
               /\ as_completed' = NoGenerator
               /\ first_finished' = 0
               /\ pc' = IF UsesParallel(calls) THEN "parallel" ELSE "sequential"
          ELSE /\ pc' = "input"
               /\ UNCHANGED dispatchVars

\* ------------------------------------------------------------------------
\* Agent.run_conversation
\* ------------------------------------------------------------------------
\* a loop that leaves the log as the dispatcher left it
ReplaceSentinel_never(log) == log

\* lines 529-537: the denial sentinel at the end of the log is replaced
ReplaceSentinel(log) ==
    IF /\ log # <<>>
       /\ log[Len(log)].role = "assistant"
       /\ log[Len(log)].content = PermissionDenialSentinel
    THEN [log EXCEPT ![Len(log)] = UnderstoodMessage]
    ELSE log

\* lines 505-565: a non-empty input that is no command is appended and the
\* request is sent; the orchestrator then blocks in model_client.send
UserInput ==
    /\ pc = "input"
    /\ sends < MaxRequests
    /\ LET top == loop_top(messages, clock, last_compaction_time, estimated_tokens,
                           _token_cache, context_size)
       IN /\ messages' = Append(ReplaceSentinel(top.messages), UserMessage)
          /\ update_token_count(top.cache, messages')
          /\ last_compaction_time' = top.last_compaction_time
          /\ autoTimes' = IF top.messages # messages THEN Append(autoTimes, clock)
                          ELSE autoTimes
    /\ request_in_progress' = TRUE
    /\ lastSent' = messages'
    /\ sends' = sends + 1
    /\ lastEvent' = "none"
    /\ outcome' = "none"
    /\ pc' = "sending"
    /\ UNCHANGED <<recent_tool_calls, parallel_tools, tool_calls, idx, futures, batch_id,
                   batchStart, executed, gate_log, batch_decision, prompted, poolVars, issued,
                   componentVars, context_size>>

\* lines 506-512: EOFError at the prompt leaves the loop
EndOfInput ==
    /\ pc = "input"
    /\ pc' = "exited"
    /\ lastEvent' = "eof"
    /\ LET top == loop_top(messages, clock, last_compaction_time, estimated_tokens,
                           _token_cache, context_size)
       IN /\ messages' = top.messages
          /\ estimated_tokens' = top.estimated_tokens
          /\ _token_cache' = top.cache
          /\ last_compaction_time' = top.last_compaction_time
          /\ autoTimes' = IF top.messages # messages THEN Append(autoTimes, clock)
                          ELSE autoTimes
    /\ UNCHANGED <<request_in_progress, recent_tool_calls, parallel_tools,
                   dispatchVars, lastSent, sends, issued, componentVars, context_size>>

\* lines 568-578: what run_conversation does with a response flagged interrupted
run_conversation_on_interrupted == "exited"

\* lines 566-596: the initial request returns a response
InitialResponse(response) ==
    /\ pc = "sending"
    /\ request_in_progress' = FALSE
    /\ IF IsInterrupted(response)
       THEN /\ pc' = run_conversation_on_interrupted
            /\ lastEvent' = "interrupted_initial"
            /\ UNCHANGED <<messages, dispatchVars, issued, tokenVars>>
       ELSE /\ lastEvent' = "response"
            /\ process_llm_response(response)
    /\ UNCHANGED <<recent_tool_calls, parallel_tools, lastSent, sends, componentVars,
                   last_compaction_time, context_size, autoTimes>>

\* lines 597-603: KeyboardInterrupt while the initial request is in flight
InitialKeyboardInterrupt ==
    /\ pc = "sending"
    /\ request_in_progress' = FALSE
    /\ lastEvent' = "kbd_initial"
    /\ pc' = "input"
    /\ UNCHANGED <<messages, recent_tool_calls, parallel_tools, dispatchVars, lastSent, sends,
                   issued, componentVars, budgetVars>>

\* lines 191-226: the follow-up request returns a response
FollowUpResponse(response) ==
    /\ pc = "followup"
    /\ request_in_progress' = FALSE
    /\ IF IsInterrupted(response)
       THEN /\ pc' = "input"
            /\ lastEvent' = "interrupted_followup"
            /\ UNCHANGED <<messages, dispatchVars, issued, tokenVars>>
       ELSE /\ lastEvent' = "response"
            /\ process_llm_response(response)
    /\ UNCHANGED <<recent_tool_calls, parallel_tools, lastSent, sends, componentVars,
                   last_compaction_time, context_size, autoTimes>>

\* lines 227-231: KeyboardInterrupt while the follow-up request is in flight;
\* the handler does not touch request_in_progress
FollowUpKeyboardInterrupt ==
    /\ pc = "followup"
    /\ lastEvent' = "kbd_followup"
    /\ pc' = "input"
    /\ UNCHANGED <<messages, request_in_progress, recent_tool_calls, parallel_tools,
                   dispatchVars, lastSent, sends, issued, componentVars, budgetVars>>

\* ------------------------------------------------------------------------
\* Agent._process_sequential_tool_calls: one iteration of the loop
\* ------------------------------------------------------------------------
\* the log when a raised denial leaves no sentinel behind
SequentialLog_no_sentinel(log, call, effect) ==
    IF effect.raised # "none" THEN log
    ELSE Append(log, ToolMessage(call.call_id, call.tool_name, effect.result))

\* lines 286-329: the log after execute_tool returned or raised
SequentialLog(log, call, effect) ==
    IF effect.raised = "PermissionDeniedError" THEN Append(log, SentinelMessage)
    ELSE IF effect.raised # "none" THEN log
    ELSE Append(log, ToolMessage(call.call_id, call.tool_name, effect.result))

\* lines 298, 324-326 and 166-168: PermissionDeniedError leaves the loop and
\* process_llm_response; any other exception is logged and the loop goes on
SequentialAborts(effect) == effect.raised = "PermissionDeniedError"

SequentialStep(answer, tool_outcome) ==
    /\ pc = "sequential"
    /\ \E call \in {_normalize_tool_call(tool_calls[idx], clock)} :
       \E effect \in {execute_tool(recent_tool_calls, call.tool_name, call.arguments,
                                   check_context_msg, "", answer, tool_outcome)} :
       \E skipped \in {call.tool_name = ""} :
       \E log \in {IF skipped THEN messages ELSE SequentialLog(messages, call, effect)} :
          /\ messages' = log
          /\ recent_tool_calls' = IF skipped THEN recent_tool_calls ELSE effect.window
          /\ executed' = IF ~skipped /\ effect.executed THEN executed \cup {idx} ELSE executed
          /\ gate_log' = IF ~skipped /\ effect.asked
                         THEN gate_log \cup {<<idx, check_permission(answer, "")>>}
                         ELSE gate_log
          /\ IF ~skipped /\ SequentialAborts(effect)
             THEN /\ outcome' = "raised"
                  /\ pc' = "input"
                  /\ update_token_count(_token_cache, log)
                  /\ UNCHANGED <<idx, request_in_progress, lastSent, sends>>
             ELSE IF idx < Len(tool_calls)
             THEN /\ idx' = idx + 1
                  /\ UNCHANGED <<outcome, requestVars, tokenVars>>
             ELSE /\ outcome' = "returned"
                  /\ update_token_count(_token_cache, log)
                  /\ SendFollowUp(log)
                  /\ UNCHANGED idx
    /\ UNCHANGED <<parallel_tools, tool_calls, futures, batch_id, batchStart, batch_decision,
                   prompted,
                   poolVars, issued, lastEvent, componentVars, last_compaction_time,
                   context_size, autoTimes>>

\* ------------------------------------------------------------------------
\* Agent._process_parallel_tool_calls
\* ------------------------------------------------------------------------
\* a normalization loop that queues the calls without a tool name too
ValidCalls_with_unnamed(calls) == 1..Len(calls)

\* lines 339-353: the calls that have a tool name
ValidCalls(calls) == {i \in 1..Len(calls) : _normalize_tool_call(calls[i], clock).tool_name # ""}

\* lines 355-374: the calls whose tool is known and requires confirmation
ProtectedCalls(calls) ==
    {i \in ValidCalls(calls) :
        LET tool_name == _normalize_tool_call(calls[i], clock).tool_name
        IN tool_name \in DOMAIN tools /\ tools[tool_name]}

Future(state, raised, result) == [state |-> state, raised |-> raised, result |-> result]

\* line 357
NewBatchId == "parallel-T"

\* a dispatcher that submits the batch whatever the gate answered
ParallelVerdict_ignores_denial(valid, protected, broken, answer) ==
    IF broken THEN "AttributeError"
    ELSE IF valid = {} THEN "ValueError"
    ELSE "submit"

\* lines 355-397: what happens between normalization and the submission:
\* arguments.items() of a protected call that is no dict raises AttributeError
\* (line 367), a denied consolidated request returns (lines 390-394), an empty
\* pool raises ValueError (max_workers=0, line 396)
ParallelVerdict(valid, protected, broken, answer) ==
    IF broken THEN "AttributeError"
    ELSE IF protected # {} /\ ~answer THEN "denied"
    ELSE IF valid = {} THEN "ValueError"
    ELSE "submit"

\* lines 362-373: what the request shows for one protected call: the arguments
\* of a bash call that has a command, else the first string argument named
\* path or file_path, else None
permission_path(tool_name, arguments) ==
    IF tool_name = "bash" /\ \E k \in 1..Len(arguments.items) : arguments.items[k][1] = "command"
    THEN arguments
    ELSE LET hits == {k \in 1..Len(arguments.items) :
                        \* isinstance(arg_value, str)
                        /\ arguments.items[k][2] # NoneValue
                        /\ arguments.items[k][2] \notin
                                {IntValue("0"), IntValue("1"), IntValue("2")}
                        /\ arguments.items[k][1] \in {"path", "file_path"}}
         IN IF hits = {} THEN Scalar("NoneType")
            ELSE [type |-> "str", items |-> <<>>,
                  text |-> arguments.items[CHOOSE k \in hits : \A h \in hits : k <= h][2]]

\* lines 355-374: the list handed to prompt_for_parallel_operations, one entry
\* per protected call in the order of the batch
protected_tools(calls) ==
    LET entries[i \in 0..Len(calls)] ==
            IF i = 0 THEN <<>>
            ELSE IF i \in ProtectedCalls(calls)
            THEN LET call == _normalize_tool_call(calls[i], clock)
                 IN Append(entries[i - 1],
                           [tool_name |-> call.tool_name,
                            permission_path |-> permission_path(call.tool_name, call.arguments)])
            ELSE entries[i - 1]
    IN entries[Len(calls)]

\* lines 389-392: prompt_for_parallel_operations(protected_tools, permission_text, batch_id)
ParallelPrompt(calls) == [protected_tools |-> protected_tools(calls), batch_id |-> NewBatchId]

ParallelPrepare(answer) ==
    /\ pc = "parallel"
    /\ LET valid == ValidCalls(tool_calls)
           protected == ProtectedCalls(tool_calls)
           broken == \E i \in protected :
                        _normalize_tool_call(tool_calls[i], clock).arguments.type # "dict"
           what == ParallelVerdict(valid, protected, broken, answer)
       IN /\ batch_decision' = IF broken \/ protected = {} THEN "none"
                               ELSE IF answer THEN "approved" ELSE "denied"
          /\ prompted' = IF broken \/ protected = {} THEN <<>>
                         ELSE <<ParallelPrompt(tool_calls)>>
          /\ CASE what = "denied" ->
                    /\ outcome' = "denied"
                    /\ SendFollowUp(messages)
                    /\ UNCHANGED <<futures, batch_id>>
               [] what = "submit" ->
                    /\ futures' = [i \in valid |-> Future("queued", "none", NoResult)]
                    /\ batch_id' = NewBatchId
                    /\ pc' = "workers"
                    /\ UNCHANGED <<outcome, request_in_progress, lastSent, sends>>
               [] OTHER ->
                    /\ outcome' = "crashed"
                    /\ pc' = "crashed"
                    /\ UNCHANGED <<futures, batch_id, request_in_progress, lastSent, sends>>
    /\ UNCHANGED <<messages, recent_tool_calls, parallel_tools, tool_calls, idx, batchStart,
                   executed, gate_log, poolVars, issued, lastEvent, componentVars,
                   budgetVars>>

\* futures a pool thread is working on
Running == {i \in DOMAIN futures : futures[i].state \in {"checked", "recorded"}}

\* a pool with one thread per call
max_workers_uncapped == Cardinality(DOMAIN futures)

\* line 397
max_workers ==
    IF Cardinality(DOMAIN futures) < max_workers_cap
    THEN Cardinality(DOMAIN futures) ELSE max_workers_cap

\* the pool runs from the submission until the with block is left
PoolOpen == pc \in {"workers", "draining"}

\* the future of call i is set: it is counted as finished, and the waiter that
\* as_completed installed queues it
Finish(i) ==
    /\ first_finished' = IF first_finished = 0 THEN i ELSE first_finished
    /\ as_completed' = IF as_completed.entered
                       THEN [as_completed EXCEPT !.queue = Append(@, i)]
                       ELSE as_completed

\* a pool thread takes call i: execute_tool lines 255-261
WorkerCheck(i) ==
    /\ PoolOpen
    /\ i \in DOMAIN futures
    /\ futures[i].state = "queued"
    /\ Cardinality(Running) < max_workers
    /\ LET call == _normalize_tool_call(tool_calls[i], clock)
       IN futures' = [futures EXCEPT ![i] =
            IF ~_is_valid_tool(call.tool_name)
            THEN Future("done", "none", _create_error_result(<<"Unknown tool: ", call.tool_name>>))
            ELSE IF call.arguments.type # "dict"
            THEN Future("done", "AttributeError", NoResult)
            ELSE IF _is_redundant_call(recent_tool_calls, call.tool_name, call.arguments)
            THEN Future("done", "none", _handle_redundant_call(call.tool_name, check_context_msg))
            ELSE Future("checked", "none", NoResult)]
    /\ IF futures'[i].state = "done" THEN Finish(i) ELSE UNCHANGED poolVars
    /\ UNCHANGED <<messages, request_in_progress, recent_tool_calls, parallel_tools, pc,
                   tool_calls, idx, batch_id, batchStart, outcome, executed, gate_log,
                   batch_decision, prompted, lastSent, sends, issued, lastEvent, componentVars,
                   budgetVars>>

\* execute_tool line 264
WorkerRecord(i) ==
    /\ PoolOpen
    /\ i \in DOMAIN futures
    /\ futures[i].state = "checked"
    /\ LET call == _normalize_tool_call(tool_calls[i], clock)
       IN recent_tool_calls' = _record_tool_call(recent_tool_calls, call.tool_name, call.arguments)
    /\ futures' = [futures EXCEPT ![i].state = "recorded"]
    /\ UNCHANGED <<messages, request_in_progress, parallel_tools, pc, tool_calls, idx, batch_id,
                   batchStart, outcome, executed, gate_log, batch_decision, prompted, poolVars,
                   lastSent, sends, issued, lastEvent, componentVars, budgetVars>>

\* execute_tool lines 267-271
WorkerExecute(i, answer, tool_outcome) ==
    /\ PoolOpen
    /\ i \in DOMAIN futures
    /\ futures[i].state = "recorded"
    /\ LET call == _normalize_tool_call(tool_calls[i], clock)
           permission == _check_permissions(call.tool_name, call.arguments, batch_id, answer)
       IN CASE permission = "raise" ->
                 /\ futures' = [futures EXCEPT ![i] =
                        Future("done", "PermissionDeniedError", NoResult)]
                 /\ UNCHANGED executed
            [] permission = "deny" ->
                 /\ futures' = [futures EXCEPT ![i] = Future("done", "none",
                        _create_error_result(<<"Permission denied for ", call.tool_name>>))]
                 /\ UNCHANGED executed
            [] OTHER ->
                 /\ LET done == _perform_tool_execution(call.tool_name, call.arguments,
                                                        tool_outcome)
                    IN futures' = [futures EXCEPT ![i] = Future("done", done.raised, done.result)]
                 /\ executed' = executed \cup {i}
    /\ Finish(i)
    /\ UNCHANGED <<messages, request_in_progress, recent_tool_calls, parallel_tools, pc,
                   tool_calls, idx, batch_id, batchStart, outcome, gate_log, batch_decision, prompted,
                   lastSent, sends, issued, lastEvent, componentVars, budgetVars>>

\* the orders in which a set can be iterated
RECURSIVE Orders(_)
Orders(S) ==
    IF S = {} THEN {<<>>}
    ELSE UNION {{<<x>> \o order : order \in Orders(S \ {x})} : x \in S}

\* line 411, as_completed(future_to_call): the futures that are finished when
\* the generator starts are yielded first, in the iteration order of a set of
\* futures; those that finish later are yielded as they finish. The generator
\* starts with the first iteration of the loop.
Yielded(generator, order) ==
    IF generator.entered THEN generator.queue ELSE order

\* lines 411-449: the main thread takes the future as_completed yields; after
\* the last one the dispatch returns and the follow-up request is sent
\* (lines 170-190)
CollectResult(i) ==
    /\ pc = "workers"
    /\ i \in DOMAIN futures
    /\ futures[i].state = "done"
    /\ \E order \in Orders({j \in DOMAIN futures : futures[j].state = "done"}) :
          /\ Yielded(as_completed, order) # <<>>
          /\ i = Head(Yielded(as_completed, order))
          /\ as_completed' = [entered |-> TRUE, queue |-> Tail(Yielded(as_completed, order))]
    /\ \E call \in {_normalize_tool_call(tool_calls[i], clock)} :
       \E log \in {IF futures[i].raised # "none" THEN messages
                   ELSE Append(messages, ToolMessage(call.call_id, call.tool_name, futures[i].result))} :
       LET last == \A j \in DOMAIN futures \ {i} : futures[j].state = "collected"
       IN /\ messages' = log
          /\ futures' = [futures EXCEPT ![i].state = "collected"]
          /\ IF last
             THEN /\ outcome' = "returned"
                  /\ update_token_count(_token_cache, log)
                  /\ SendFollowUp(log)
             ELSE UNCHANGED <<outcome, requestVars, tokenVars>>
          /\ first_finished' = IF last THEN 0 ELSE first_finished
    /\ UNCHANGED <<recent_tool_calls, parallel_tools, tool_calls, idx, batch_id, batchStart,
                   executed, gate_log, batch_decision, prompted, issued, lastEvent, componentVars,
                   last_compaction_time, context_size, autoTimes>>

\* ------------------------------------------------------------------------
\* KeyboardInterrupt while a batch is dispatched
\* ------------------------------------------------------------------------
\* Ctrl-C between two iterations of the sequential loop, or while the main
\* thread waits in as_completed. Neither dispatch loop catches it (lines 327
\* and 441 catch Exception); it leaves process_llm_response past line 166 and
\* is handled at lines 597-603 (or 227-231 for the batch of a follow-up), which
\* return to the prompt. update_token_count (lines 331 and 449) is skipped.
\* Leaving the with block of line 396 first waits for the pool threads.
BatchKeyboardInterrupt ==
    /\ pc \in {"sequential", "workers"}
    /\ pc' = IF pc = "sequential" THEN "input" ELSE "draining"
    /\ request_in_progress' = FALSE
    /\ outcome' = "interrupted"
    /\ lastEvent' = "kbd_batch"
    /\ UNCHANGED <<messages, recent_tool_calls, parallel_tools, tool_calls, idx, futures,
                   batch_id, batchStart, executed, gate_log, batch_decision, prompted, poolVars,
                   lastSent, sends, issued, componentVars, budgetVars>>

\* ThreadPoolExecutor.__exit__: shutdown(wait=True) returns when every
\* submitted call has run
PoolShutdown ==
    /\ pc = "draining"
    /\ \A i \in DOMAIN futures : futures[i].state \in {"done", "collected"}
    /\ pc' = "input"
    /\ UNCHANGED <<messages, request_in_progress, recent_tool_calls, parallel_tools,
                   dispatchVars, lastSent, sends, issued, lastEvent, componentVars, budgetVars>>

\* ------------------------------------------------------------------------
\* Specification of the orchestrator
\* ------------------------------------------------------------------------
\* A response that carries tool calls needs a follow-up request, and the model
\* issues at most MaxCalls calls in a run.
ResponsesNow ==
    TextResponses \cup InterruptedResponses
        \cup (IF sends < MaxRequests
              THEN {r \in ToolCallResponses : issued + Len(ExtractToolCalls(r, clock)) <= MaxCalls}
              ELSE {})

Next ==
    \/ UserInput
    \/ EndOfInput
    \/ pc = "sending" /\ \E response \in ResponsesNow : InitialResponse(response)
    \/ InitialKeyboardInterrupt
    \/ pc = "followup" /\ \E response \in ResponsesNow : FollowUpResponse(response)
    \/ FollowUpKeyboardInterrupt
    \/ \E answer \in GateAnswers, tool_outcome \in ToolOutcomes : SequentialStep(answer, tool_outcome)
    \/ \E answer \in BatchAnswers : ParallelPrepare(answer)
    \/ \E i \in 1..MaxCalls : WorkerCheck(i)
    \/ \E i \in 1..MaxCalls : WorkerRecord(i)
    \/ \E i \in 1..MaxCalls, answer \in GateAnswers, tool_outcome \in ToolOutcomes :
            WorkerExecute(i, answer, tool_outcome)
    \/ \E i \in 1..MaxCalls : CollectResult(i)

Spec == Init /\ [][Next]_vars

\* What a turn relies on: the model client returns from the request and from
\* the follow-up request, the gate answers and tool.execute returns, so that the
\* sequential loop and the parallel dispatcher reach their next statement; the
\* pool schedules every worker and as_completed hands over every finished
\* future. The user is not required to type.
ProgressFairness ==
    /\ WF_vars(pc = "sending" /\ \E response \in ResponsesNow : InitialResponse(response))
    /\ WF_vars(pc = "followup" /\ \E response \in ResponsesNow : FollowUpResponse(response))
    /\ WF_vars(\E answer \in GateAnswers, tool_outcome \in ToolOutcomes :
                  SequentialStep(answer, tool_outcome))
    /\ WF_vars(\E answer \in BatchAnswers : ParallelPrepare(answer))
    /\ \A i \in 1..MaxCalls :
          /\ WF_vars(WorkerCheck(i))
          /\ WF_vars(WorkerRecord(i))
          /\ WF_vars(\E answer \in GateAnswers, tool_outcome \in ToolOutcomes :
                        WorkerExecute(i, answer, tool_outcome))
          /\ WF_vars(CollectResult(i))

SpecProgress == Spec /\ ProgressFairness

\* ------------------------------------------------------------------------
\* Specification of the orchestrator with Ctrl-C during a batch
\* ------------------------------------------------------------------------
NextInterrupt ==
    \/ Next
    \/ BatchKeyboardInterrupt
    \/ PoolShutdown

SpecInterrupt == Init /\ [][NextInterrupt]_vars

\* ------------------------------------------------------------------------
\* Specification of the redundancy filter alone
\* ------------------------------------------------------------------------
\* record operations applied in one run of the filter
MaxRecords == 6

ToolCall(tool_name, arguments) == [tool_name |-> tool_name, arguments |-> arguments]

FilterCalls ==
    {ToolCall("ls", Dict(<<<<"path", "/a">>>>)),
     ToolCall("ls", Dict(<<<<"path", "/b">>>>)),
     ToolCall("file_read", Dict(<<<<"file_path", "/a">>, <<"path", "/a">>>>)),
     ToolCall("file_read", Dict(<<<<"path", "/a">>, <<"file_path", "/a">>>>)),
     ToolCall("file_read", Dict(<<<<"file_path", "/a">>, <<"path", "/b">>>>))}

\* ToolManager.record_tool_call applied to the window
RecordToolCall(c) ==
    /\ records < MaxRecords
    /\ recent_tool_calls' = record_tool_call(recent_tool_calls, c.tool_name, c.arguments)
    /\ records' = records + 1
    /\ verdict' = NoVerdict
    /\ history' = Append(history, c)
    /\ UNCHANGED <<messages, request_in_progress, parallel_tools, pc, dispatchVars, lastSent,
                   sends, issued, lastEvent, executeVars, clock, normalizeVars, compactVars, budgetVars>>

\* ToolManager.is_redundant_call and _is_redundant_call applied to the window
CheckRedundant(c) ==
    /\ verdict' = [checked |-> TRUE, tool_name |-> c.tool_name, arguments |-> c.arguments,
                   public |-> is_redundant_call(recent_tool_calls, c.tool_name, c.arguments),
                   private |-> _is_redundant_call(recent_tool_calls, c.tool_name, c.arguments)]
    /\ UNCHANGED <<messages, request_in_progress, recent_tool_calls, parallel_tools, pc,
                   dispatchVars, lastSent, sends, issued, lastEvent, records, history,
                   executeVars, clock, normalizeVars, compactVars, budgetVars>>

InitFilter == Init /\ parallel_tools = TRUE

NextFilter ==
    \/ \E c \in FilterCalls : RecordToolCall(c)
    \/ \E c \in FilterCalls : CheckRedundant(c)

SpecFilter == InitFilter /\ [][NextFilter]_vars

\* ------------------------------------------------------------------------
\* Specification of the dispatcher alone: ToolManager.execute_tool
\* ------------------------------------------------------------------------
\* execute_tool calls applied in one run of the dispatcher
MaxExecutions == 3

\* "rm_rf" is no registered tool; the last call carries arguments that are a
\* JSON list
DispatchCalls ==
    {ToolCall("ls", Dict(<<<<"path", "/a">>>>)),
     ToolCall("ls", Dict(<<<<"path", "/b">>>>)),
     ToolCall("file_read", Dict(<<<<"file_path", "/a">>>>)),
     ToolCall("bash", Dict(<<<<"command", "make">>>>)),
     ToolCall("rm_rf", Dict(<<<<"path", "/a">>>>)),
     ToolCall("file_read", ListValue)}

\* tool.execute returns, raises json.JSONDecodeError or raises another Exception
DispatchOutcomes == ToolOutcomes \cup {"raise_json"}

\* one call of execute_tool, outside any batch
ExecuteTool(c, context_msg, answer, tool_outcome) ==
    /\ executions < MaxExecutions
    /\ LET effect == execute_tool(recent_tool_calls, c.tool_name, c.arguments,
                                  context_msg, "", answer, tool_outcome)
       IN /\ recent_tool_calls' = effect.window
          /\ history' = IF effect.recorded THEN Append(history, c) ELSE history
          /\ lastExecution' =
                     [called |-> TRUE, tool_name |-> c.tool_name, arguments |-> c.arguments,
                      window |-> recent_tool_calls, check_context_msg |-> context_msg,
                      answer |-> answer,
                      tool_outcome |-> tool_outcome, effect |-> effect]
    /\ executions' = executions + 1
    /\ UNCHANGED <<messages, request_in_progress, parallel_tools, pc, dispatchVars, lastSent,
                   sends, issued, lastEvent, records, verdict, clock, normalizeVars,
                   compactVars, budgetVars>>

InitDispatch == Init /\ parallel_tools = FALSE

NextDispatch ==
    \E c \in DispatchCalls, context_msg \in BOOLEAN, answer \in GateAnswers,
       tool_outcome \in DispatchOutcomes :
        ExecuteTool(c, context_msg, answer, tool_outcome)

SpecDispatch == InitDispatch /\ [][NextDispatch]_vars

\* ------------------------------------------------------------------------
\* Specification of the normalizer alone: the loop of lines 339-353
\* ------------------------------------------------------------------------
\* seconds that pass while one batch is normalized
MaxClock == 1

\* the strings the model sends as arguments:
\*   {"a": 1}   {'a': 1}   x=1   a: 1   [1]   1   "s"   null   {}   and the empty string
ArgumentTexts ==
    {<<"{", DQ, "a", DQ, ":", " ", "1", "}">>,
     <<"{", "'", "a", "'", ":", " ", "1", "}">>,
     <<"x", "=", "1">>,
     <<"a", ":", " ", "1">>,
     <<"[", "1", "]">>,
     <<"1">>,
     <<DQ, "s", DQ>>,
     <<"null">>,
     <<"{", "}">>,
     <<>>}

\* arguments as a str, as a dict and as None
ArgumentPayloads ==
    {Str(text) : text \in ArgumentTexts}
        \cup {RawArgs("native", Dict(<<<<"a", IntValue("1")>>>>), <<>>),
              RawArgs("null", Dict(<<>>), <<>>)}

\* a tool call in the flat format: "name" and "arguments" at the top level
FlatCall(id, name, args) == [id |-> id, function |-> <<>>, name |-> name, arguments |-> args]

NormalizerCalls ==
    {RawCall("call_1", "file_read", args) : args \in ArgumentPayloads}
        \cup {RawCall(NoId, "file_read", Str(text)) :
                    text \in {<<"x", "=", "1">>, <<"[", "1", "]">>, <<"{", "}">>}}
        \cup {RawCall("call_2", "file_read", Str(<<"{", "}">>)),
              RawCall("call_3", "", Str(<<"{", "}">>)),
              FlatCall("call_4", "ls", Str(<<"{", "}">>))}

NormalizerBatches == SeqsUpTo(NormalizerCalls, MaxCalls) \ {<<>>}

\* the loop receives the tool calls of a response
ReceiveBatch(batch) ==
    /\ raw_batch = <<>>
    /\ raw_batch' = batch
    /\ UNCHANGED <<messages, request_in_progress, recent_tool_calls, parallel_tools, pc,
                   dispatchVars, lastSent, sends, issued, lastEvent, filterVars, executeVars,
                   clock, normalized, compactVars, budgetVars>>

\* one iteration: _normalize_tool_call(tc) returns or raises
NormalizeNext ==
    /\ Len(normalized) < Len(raw_batch)
    /\ normalized' = Append(normalized,
                            _normalize_tool_call(raw_batch[Len(normalized) + 1], clock))
    /\ UNCHANGED <<messages, request_in_progress, recent_tool_calls, parallel_tools, pc,
                   dispatchVars, lastSent, sends, issued, lastEvent, filterVars, executeVars,
                   clock, raw_batch, compactVars, budgetVars>>

\* a second passes
Tick ==
    /\ clock < MaxClock
    /\ clock' = clock + 1
    /\ UNCHANGED <<messages, request_in_progress, recent_tool_calls, parallel_tools, pc,
                   dispatchVars, lastSent, sends, issued, lastEvent, filterVars, executeVars,
                   normalizeVars, compactVars, budgetVars>>

InitNormalize == Init /\ parallel_tools = TRUE

NextNormalize ==
    \/ raw_batch = <<>> /\ \E batch \in NormalizerBatches : ReceiveBatch(batch)
    \/ NormalizeNext
    \/ Tick

SpecNormalize == InitNormalize /\ [][NextNormalize]_vars


\* ------------------------------------------------------------------------
\* Specification of the compaction alone
\* ------------------------------------------------------------------------
\* messages appended to the log in one run
MaxAppends == 10
\* compactions in one run
MaxCompactions == 2

\* the n-th message appended to the log
LogMessage(role, n) == Message(role, ToString(n), "", "", <<>>, <<>>)

\* a user or assistant message is appended to the log
AppendMessage(role) ==
    /\ appended < MaxAppends
    /\ appended' = appended + 1
    /\ messages' = Append(messages, LogMessage(role, appended + 1))
    /\ UNCHANGED <<request_in_progress, recent_tool_calls, parallel_tools, pc, dispatchVars,
                   lastSent, sends, issued, lastEvent, filterVars, executeVars, clock,
                   normalizeVars, compactions, lastCompaction, budgetVars>>

\* self.messages = self.command_handler.compact_conversation(self.messages)
CompactConversation ==
    /\ compactions < MaxCompactions
    /\ compactions' = compactions + 1
    /\ messages' = compact_conversation(messages)
    /\ last_compaction_time' = compaction_time(messages, clock, last_compaction_time)
    /\ lastCompaction' = [done |-> TRUE, before |-> messages, after |-> messages']
    /\ UNCHANGED <<request_in_progress, recent_tool_calls, parallel_tools, pc, dispatchVars,
                   lastSent, sends, issued, lastEvent, filterVars, executeVars, clock,
                   normalizeVars, appended, tokenVars, context_size, autoTimes>>

\* the log starts empty or with the system prompt (Agent.__init__)
InitCompact ==
    /\ messages \in {<<>>, <<SystemMessage>>}
    /\ request_in_progress = FALSE
    /\ recent_tool_calls = <<>>
    /\ parallel_tools = FALSE
    /\ pc = "input"
    /\ tool_calls = <<>>
    /\ idx = 1
    /\ futures = NoFutures
    /\ batch_id = ""
    /\ batchStart = 0
    /\ outcome = "none"
    /\ executed = {}
    /\ gate_log = {}
    /\ batch_decision = "none"
    /\ prompted = <<>>
    /\ lastSent = <<>>
    /\ sends = 0
    /\ issued = 0
    /\ lastEvent = "none"
    /\ records = 0
    /\ verdict = NoVerdict
    /\ history = <<>>
    /\ lastExecution = NoExecution
    /\ executions = 0
    /\ clock = 0
    /\ raw_batch = <<>>
    /\ normalized = <<>>
    /\ appended = 0
    /\ compactions = 0
    /\ lastCompaction = NoCompaction
    /\ estimated_tokens = (IF messages = <<>> THEN 0
                           ELSE estimate_tokens(EmptyCache, messages).tokens)
    /\ _token_cache = estimate_tokens(EmptyCache, messages).cache
    /\ last_compaction_time = Epoch
    /\ context_size = LargeContext
    /\ autoTimes = <<>>
    /\ as_completed = NoGenerator
    /\ first_finished = 0

NextCompact ==
    \/ \E role \in {"user", "assistant"} : AppendMessage(role)
    \/ CompactConversation

SpecCompact == InitCompact /\ [][NextCompact]_vars

\* ------------------------------------------------------------------------
\* Specification of the token budget alone: TokenManager, the loop top of
\* run_conversation and the /compact command
\* ------------------------------------------------------------------------
\* seconds on the clock in one run
MaxTime == 600
\* messages appended to the log in one run
MaxTurnMessages == 8

\* the time that passes between two steps
Delays == {min_compaction_interval - 1, min_compaction_interval}

\* what the model answers: text, or one tool call
BudgetResponses ==
    {Response("text", <<>>, <<>>, FALSE),
     Response("", <<c_bash>>, <<>>, FALSE),
     Response("", <<c_read>>, <<>>, FALSE)}

\* what a turn appends after the last message of the log: a user message at
\* the prompt, the response of the model after a user message or a tool result,
\* the tool result after a response with a tool call
NextMessages(log) ==
    IF log = <<>> THEN {UserMessage}
    ELSE LET last == log[Len(log)]
         IN CASE last.role = "system" -> {UserMessage}
              [] last.role = "assistant" /\ last.tool_calls = <<>> -> {UserMessage}
              [] last.role = "assistant" /\ last.tool_calls # <<>> ->
                    {ToolMessage(last.tool_calls[1].id, last.tool_calls[1].function.name,
                                 [success |-> TRUE, error |-> <<>>])}
              [] OTHER -> {AssistantMessage(response) : response \in BudgetResponses}

BudgetMessages ==
    {UserMessage} \cup {AssistantMessage(response) : response \in BudgetResponses}
        \cup {ToolMessage(c.id, c.function.name, [success |-> TRUE, error |-> <<>>]) :
                c \in {c_bash, c_read}}

\* lines 497-503: the loop top of run_conversation
LoopTop ==
    /\ pc = "top"
    /\ pc' = "input"
    /\ LET top == loop_top(messages, clock, last_compaction_time, estimated_tokens,
                           _token_cache, context_size)
       IN /\ top.compacted => compactions < MaxCompactions
          /\ compactions' = IF top.compacted THEN compactions + 1 ELSE compactions
          /\ messages' = top.messages
          /\ last_compaction_time' = top.last_compaction_time
          /\ estimated_tokens' = top.estimated_tokens
          /\ _token_cache' = top.cache
          /\ lastCompaction' = IF top.compacted
                               THEN [done |-> TRUE, before |-> messages, after |-> top.messages]
                               ELSE lastCompaction
          /\ autoTimes' = IF top.messages # messages THEN Append(autoTimes, clock)
                          ELSE autoTimes
    /\ UNCHANGED <<request_in_progress, recent_tool_calls, parallel_tools, dispatchVars,
                   lastSent, sends, issued, lastEvent, filterVars, executeVars, clock,
                   normalizeVars, appended, context_size>>

\* lines 515-516: an empty input goes back to the loop top
EmptyInput ==
    /\ pc = "input"
    /\ pc' = "top"
    /\ UNCHANGED <<messages, request_in_progress, recent_tool_calls, parallel_tools,
                   dispatchVars, lastSent, sends, issued, lastEvent, componentVars, budgetVars>>

\* lines 519-527 and handle_command lines 792-799: the /compact command
CompactCommand ==
    /\ pc = "input"
    /\ pc' = "top"
    /\ compactions < MaxCompactions
    /\ compactions' = compactions + 1
    /\ messages' = compact_conversation(messages)
    /\ last_compaction_time' = compaction_time(messages, clock, last_compaction_time)
    /\ update_token_count(_token_cache, messages')
    /\ lastCompaction' = [done |-> TRUE, before |-> messages, after |-> messages']
    /\ UNCHANGED <<request_in_progress, recent_tool_calls, parallel_tools, dispatchVars,
                   lastSent, sends, issued, lastEvent, filterVars, executeVars, clock,
                   normalizeVars, appended, context_size, autoTimes>>

\* a message is appended and update_token_count runs: lines 539-543 for the
\* user input, 156-158 and 235-236 for a response, 315-331 for a tool result
AppendAndCount(message) ==
    /\ appended < MaxTurnMessages
    /\ message \in NextMessages(messages)
    /\ message.role = "user" => pc = "input"
    /\ message.role # "user" => pc = "turn"
    /\ appended' = appended + 1
    /\ messages' = Append(messages, message)
    /\ update_token_count(_token_cache, messages')
    /\ pc' = IF NextMessages(messages') = {UserMessage} THEN "top" ELSE "turn"
    /\ UNCHANGED <<request_in_progress, recent_tool_calls, parallel_tools, dispatchVars,
                   lastSent, sends, issued, lastEvent, filterVars, executeVars, clock,
                   normalizeVars, compactions, lastCompaction, last_compaction_time,
                   context_size, autoTimes>>

\* time passes
Elapse(delay) ==
    /\ clock + delay <= MaxTime
    /\ clock' = clock + delay
    /\ UNCHANGED <<messages, request_in_progress, recent_tool_calls, parallel_tools, pc,
                   dispatchVars, lastSent, sends, issued, lastEvent, filterVars, executeVars,
                   normalizeVars, compactVars, budgetVars>>

\* TokenManager.clear_cache
ClearCache ==
    /\ _token_cache # EmptyCache
    /\ _token_cache' = EmptyCache
    /\ UNCHANGED <<messages, request_in_progress, recent_tool_calls, parallel_tools, pc,
                   dispatchVars, lastSent, sends, issued, lastEvent, componentVars,
                   estimated_tokens, last_compaction_time, context_size, autoTimes>>

\* Agent.__init__ with or without a system prompt, TokenManager.__init__, and
\* run_conversation at the top of its loop
InitBudget ==
    /\ messages \in {<<>>, <<SystemMessage>>}
    /\ request_in_progress = FALSE
    /\ recent_tool_calls = <<>>
    /\ parallel_tools = FALSE
    /\ pc = "top"
    /\ tool_calls = <<>>
    /\ idx = 1
    /\ futures = NoFutures
    /\ batch_id = ""
    /\ batchStart = 0
    /\ outcome = "none"
    /\ executed = {}
    /\ gate_log = {}
    /\ batch_decision = "none"
    /\ prompted = <<>>
    /\ lastSent = <<>>
    /\ sends = 0
    /\ issued = 0
    /\ lastEvent = "none"
    /\ records = 0
    /\ verdict = NoVerdict
    /\ history = <<>>
    /\ lastExecution = NoExecution
    /\ executions = 0
    /\ clock = 0
    /\ raw_batch = <<>>
    /\ normalized = <<>>
    /\ appended = 0
    /\ compactions = 0
    /\ lastCompaction = NoCompaction
    /\ estimated_tokens = (IF messages = <<>> THEN 0
                           ELSE estimate_tokens(EmptyCache, messages).tokens)
    /\ _token_cache = estimate_tokens(EmptyCache, messages).cache
    /\ last_compaction_time = Epoch
    /\ context_size = SmallContext
    /\ autoTimes = <<>>
    /\ as_completed = NoGenerator
    /\ first_finished = 0

NextBudget ==
    \/ LoopTop
    \/ EmptyInput
    \/ CompactCommand
    \/ \E message \in BudgetMessages : AppendAndCount(message)
    \/ \E delay \in Delays : Elapse(delay)
    \/ ClearCache

SpecBudget == InitBudget /\ [][NextBudget]_vars

\* ------------------------------------------------------------------------
\* Specification of the worker pool of one parallel batch
\* ------------------------------------------------------------------------
\* calls in the batch: one more than the pool has threads
PoolCalls == max_workers_cap + 1

\* file_read calls that differ in their id
PoolCall(i) ==
    RawCall("call_" \o ToString(i), "file_read",
            RawArgs("native", Dict(<<<<"file_path", "/a">>>>), <<>>))

PoolBatch == [i \in 1..PoolCalls |-> PoolCall(i)]

\* the log when the batch is dispatched
PoolLog == <<SystemMessage, UserMessage, AssistantMessage(Response("", PoolBatch, <<>>, FALSE))>>

\* lines 339-409: the first response of a run carried PoolBatch, none of its
\* tools needs confirmation, and every call has been submitted to the pool
InitPool ==
    /\ messages = PoolLog
    /\ request_in_progress = FALSE
    /\ recent_tool_calls = <<>>
    /\ parallel_tools = TRUE
    /\ pc = "workers"
    /\ tool_calls = PoolBatch
    /\ idx = 1
    /\ futures = [i \in 1..PoolCalls |-> Future("queued", "none", NoResult)]
    /\ batch_id = NewBatchId
    /\ batchStart = Len(PoolLog)
    /\ outcome = "running"
    /\ executed = {}
    /\ gate_log = {}
    /\ batch_decision = "none"
    /\ prompted = <<>>
    /\ lastSent = <<SystemMessage, UserMessage>>
    /\ sends = 1
    /\ issued = PoolCalls
    /\ lastEvent = "response"
    /\ records = 0
    /\ verdict = NoVerdict
    /\ history = <<>>
    /\ lastExecution = NoExecution
    /\ executions = 0
    /\ clock = 0
    /\ raw_batch = <<>>
    /\ normalized = <<>>
    /\ appended = 0
    /\ compactions = 0
    /\ lastCompaction = NoCompaction
    /\ estimated_tokens = estimate_tokens(EmptyCache, PoolLog).tokens
    /\ _token_cache = estimate_tokens(EmptyCache, PoolLog).cache
    /\ last_compaction_time = Epoch
    /\ context_size = LargeContext
    /\ autoTimes = <<>>
    /\ as_completed = NoGenerator
    /\ first_finished = 0

NextPool ==
    \/ \E i \in 1..PoolCalls : WorkerCheck(i)
    \/ \E i \in 1..PoolCalls : WorkerRecord(i)
    \/ \E i \in 1..PoolCalls : WorkerExecute(i, "grant", "ok")
    \/ BatchKeyboardInterrupt
    \/ PoolShutdown

SpecPool == InitPool /\ [][NextPool]_vars

\* a pool thread that took a call runs execute_tool to its end, and a free
\* thread takes the next queued call
PoolFairness ==
    \A i \in 1..PoolCalls :
        /\ WF_vars(WorkerCheck(i))
        /\ WF_vars(WorkerRecord(i))
        /\ WF_vars(WorkerExecute(i, "grant", "ok"))

SpecPoolFair == SpecPool /\ PoolFairness

\* ------------------------------------------------------------------------
\* Properties
\* ------------------------------------------------------------------------
CallName(i) == _normalize_tool_call(tool_calls[i], clock).tool_name

CallId(i) == _normalize_tool_call(tool_calls[i], clock).call_id

RequiresConfirmation(tool_name) == tool_name \in DOMAIN tools /\ tools[tool_name]

\* the tool-role messages of log after position from that answer call id
ToolMessagesFor(log, from, id) ==
    {j \in (from + 1)..Len(log) : log[j].role = "tool" /\ log[j].tool_call_id = id}

\* the calls of the batch that have a tool name and whose arguments are a dict
WellFormedCalls(calls) ==
    {i \in ValidCalls(calls) : _normalize_tool_call(calls[i], clock).arguments.type = "dict"}

\* the gate denied nothing in the dispatch of the current batch
NothingDenied == batch_decision # "denied" /\ \A e \in gate_log : e[2] = "grant"

\* C1: a tool whose requires_confirmation is true is executed only when the
\* Permission Gate approved it first: every call of the batch whose tool.execute
\* was invoked and whose tool requires confirmation was granted by the per-call
\* check (sequential) or is covered by the approved consolidated request (parallel).
C1_ConfirmingToolsRunOnlyApproved ==
    \A i \in executed :
        RequiresConfirmation(CallName(i))
            => (<<i, "grant">> \in gate_log \/ batch_decision = "approved")

\* a confirming tool was executed in a sequential dispatch after the gate granted it
C1_Witness ==
    \E i \in executed :
        /\ RequiresConfirmation(CallName(i))
        /\ <<i, "grant">> \in gate_log
        /\ \E j \in 1..Len(messages) :
              messages[j].role = "tool" /\ messages[j].name = "bash" /\ messages[j].content = "ok"

\* C2: after a dispatch has returned, every normalized call of the batch with a
\* non-empty toolName has exactly one tool-role message in the log that carries
\* its callId. Stated here for dispatches in which the gate denied nothing, the
\* reading most favourable to the code.
C2_EveryCallHasOneToolMessage ==
    (outcome = "returned" /\ NothingDenied)
        => \A i \in ValidCalls(tool_calls) :
              Cardinality(ToolMessagesFor(messages, batchStart, CallId(i))) = 1

\* C3: when the consolidated permission request of a parallel batch is denied, no
\* call of the batch is executed, no worker is started and no tool-role message
\* is appended to the log.
C3_DeniedParallelBatchRunsNothing ==
    batch_decision = "denied"
        => /\ executed = {}
           /\ futures = NoFutures
           /\ pc # "workers"
           /\ \A j \in (batchStart + 1)..Len(messages) : messages[j].role # "tool"

\* a batch of a confirming and a non-confirming call was denied and the
\* dispatcher has returned
C3_Witness ==
    /\ batch_decision = "denied"
    /\ outcome = "denied"
    /\ \E i, j \in ValidCalls(tool_calls) :
          RequiresConfirmation(CallName(i)) /\ ~RequiresConfirmation(CallName(j))
                                            /\ _is_valid_tool(CallName(j))

\* C4: in sequential mode, once the gate denies a call no later call of the batch
\* is executed and the denial reaches the orchestrator as a raised signal, not as
\* a tool-role message.
C4_DenialAbortsSequentialBatch ==
    \A e \in gate_log :
        e[2] # "grant"
            => /\ outcome = "raised"
               /\ \A j \in executed : j < e[1]
               /\ ToolMessagesFor(messages, batchStart, CallId(e[1])) = {}

\* C5: whenever the orchestrator is back at awaiting user input (or has left the
\* loop), request_in_progress is False.
C5_FlagClearedWhenIdle == pc \in {"input", "exited"} => request_in_progress = FALSE

\* C6: after a response to a user-initiated request was flagged interrupted, the
\* conversation loop has not terminated: the orchestrator awaits the next input.
C6_InterruptedResponseKeepsLoop == lastEvent = "interrupted_initial" => pc = "input"

\* C7: when a KeyboardInterrupt during the follow-up request has returned control
\* to the prompt, the assistant message of the batch is followed by a tool-role
\* message for each of its calls. Stated here for the calls that have a tool name
\* and dict arguments, the reading most favourable to the code.
C7_NoDanglingCallAfterInterrupt ==
    (pc = "input" /\ lastEvent = "kbd_followup")
        => \A i \in WellFormedCalls(tool_calls) :
              ToolMessagesFor(messages, batchStart, CallId(i)) # {}

\* C8: when the follow-up request is in flight (the dispatch returned without a
\* raised denial), the message list it was sent with holds the assistant message
\* of the batch followed by a tool-role result for every call. Stated here for
\* the calls that have a tool name and dict arguments, the reading most
\* favourable to the code.
C8_FollowUpCarriesEveryResult ==
    pc = "followup"
        => /\ Len(lastSent) >= batchStart
           /\ lastSent[batchStart].role = "assistant"
           /\ \A i \in WellFormedCalls(tool_calls) :
                 ToolMessagesFor(lastSent, batchStart, CallId(i)) # {}

\* C9: a step in which the gate raises a permission denial appends exactly one
\* sentinel assistant message to the log, sends no follow-up request and returns
\* control to awaiting user input.
C9_RaisedDenialAbortsTurn ==
    [][(\E e \in gate_log' \ gate_log : e[2] = "raise")
          => /\ messages' = Append(messages, SentinelMessage)
             /\ Cardinality({j \in 1..Len(messages') : messages'[j] = SentinelMessage}) = 1
             /\ sends' = sends
             /\ request_in_progress' = FALSE
             /\ pc' = "input"]_vars

\* the gate raised on the second call of a sequential batch and the turn is over
C9_Witness ==
    /\ \E e \in gate_log : e[2] = "raise" /\ e[1] = 2
    /\ outcome = "raised"
    /\ pc = "input"
    /\ messages[Len(messages)] = SentinelMessage

\* the items of a sorted-items tuple or of a dict, whatever their order
ItemSet(items) == {items[i] : i \in 1..Len(items)}

\* what the window must hold for a call to count as redundant
ShouldBeRedundant(window, tool_name, arguments) ==
    \/ \E i \in 1..Len(window) :
          window[i][1] = tool_name /\ ItemSet(window[i][2]) = ItemSet(arguments.items)
    \/ tool_name = "ls" /\ \E i \in 1..Len(window) : window[i][1] = "ls"

\* C10: is_redundant_call is true exactly when the window holds a record with the
\* same name and the same argument items, or the name is ls and the window holds
\* any ls record.
C10_RedundantExactlyWhen ==
    verdict.checked
        => /\ verdict.public
                = ShouldBeRedundant(recent_tool_calls, verdict.tool_name, verdict.arguments)
           /\ verdict.private = verdict.public

\* a second ls with other arguments is flagged while the window holds the first
C10_Witness ==
    /\ verdict.checked
    /\ verdict.tool_name = "ls"
    /\ verdict.public
    /\ Len(recent_tool_calls) = 1
    /\ recent_tool_calls[1][1] = "ls"
    /\ ItemSet(recent_tool_calls[1][2]) # ItemSet(verdict.arguments.items)

\* the last n elements of s
LastN(s, n) == IF Len(s) <= n THEN s ELSE SubSeq(s, Len(s) - n + 1, Len(s))

\* record r of the window is the record of call c
RecordOf(r, c) == r[1] = c.tool_name /\ ItemSet(r[2]) = ItemSet(c.arguments.items)

\* calls c and d are the same call: same name, same argument items
SameCall(c, d) ==
    c.tool_name = d.tool_name /\ ItemSet(c.arguments.items) = ItemSet(d.arguments.items)

\* the window holds exactly the most recent min(n, 5) recorded calls, in
\* recording order
WindowIsLastFive ==
    LET recent == LastN(history, 5)
    IN /\ Len(recent_tool_calls) <= 5
       /\ Len(recent_tool_calls) = Len(recent)
       /\ \A i \in 1..Len(recent) : RecordOf(recent_tool_calls[i], recent[i])

\* the call of the last evaluation was recorded and then followed by 5 or more
\* recorded calls, all of them other calls
CheckedCallWasEvicted ==
    /\ verdict.checked
    /\ \E k \in 1..Len(history) :
          /\ SameCall(history[k], ToolCall(verdict.tool_name, verdict.arguments))
          /\ Len(history) - k >= 5
          /\ \A j \in (k + 1)..Len(history) :
                ~SameCall(history[j], ToolCall(verdict.tool_name, verdict.arguments))

\* C11 as stated: the window holds exactly the most recent min(n, 5) recorded
\* calls in recording order and never more than 5, and a call that was recorded
\* and then followed by 5 other recorded calls is not flagged redundant when
\* issued again.
C11_EvictedCallNeverFlagged ==
    /\ WindowIsLastFive
    /\ CheckedCallWasEvicted => ~verdict.public

\* C11 as amended: the window holds exactly the most recent min(n, 5) recorded
\* calls in recording order and never more than 5, and a call that was recorded
\* and then followed by 5 other recorded calls is flagged redundant when issued
\* again only if it is an ls call and one of the 5 records in the window is an ls
\* record.
C11_WindowIsFifoOfFive ==
    /\ WindowIsLastFive
    /\ CheckedCallWasEvicted
          => (verdict.public
                <=> /\ verdict.tool_name = "ls"
                    /\ \E i \in 1..Len(recent_tool_calls) : recent_tool_calls[i][1] = "ls")

\* a file_read call was recorded, 5 other calls were recorded after it, and the
\* call is not flagged when issued again
C11_Witness ==
    /\ CheckedCallWasEvicted
    /\ verdict.tool_name = "file_read"
    /\ ~verdict.public
    /\ Len(history) = 6
    /\ Len(recent_tool_calls) = 5

\* the call of the last execute_tool names a registered tool and carries a dict
LastCallIsKnown ==
    /\ lastExecution.called
    /\ lastExecution.tool_name \in DOMAIN tools
    /\ lastExecution.arguments.type = "dict"

\* the window held a record that makes the call of the last execute_tool redundant
LastCallWasRedundant ==
    ShouldBeRedundant(lastExecution.window, lastExecution.tool_name, lastExecution.arguments)

\* the gate stood in the way of the call of the last execute_tool
LastCallWasRefused ==
    RequiresConfirmation(lastExecution.tool_name) /\ lastExecution.answer # "grant"

\* C12: for every known, non-redundant, permitted call, when tool.execute raises
\* an exception execute_tool raises nothing and returns a result with success
\* false and an error text.
C12_ToolExceptionNeverEscapes ==
    (/\ LastCallIsKnown
     /\ ~LastCallWasRedundant
     /\ ~LastCallWasRefused
     /\ lastExecution.tool_outcome # "ok")
        => /\ lastExecution.effect.executed
           /\ lastExecution.effect.raised = "none"
           /\ lastExecution.effect.result.success = FALSE
           /\ lastExecution.effect.result.error # <<>>

\* bash was granted, its execute raised an exception that is no JSONDecodeError
\* and execute_tool returned the error result
C12_Witness ==
    /\ LastCallIsKnown
    /\ lastExecution.tool_name = "bash"
    /\ lastExecution.answer = "grant"
    /\ lastExecution.tool_outcome = "raise"
    /\ lastExecution.effect.executed
    /\ lastExecution.effect.result = [success |-> FALSE, error |-> <<"Error executing ", "bash">>]

C14_RedundantCallRejected ==
    (LastCallIsKnown /\ LastCallWasRedundant)
        => /\ lastExecution.effect.raised = "none"
           /\ lastExecution.effect.result.success = FALSE
           /\ lastExecution.effect.result.error
                = (<<"Redundant call to ", lastExecution.tool_name,
                     ". Directory was already shown.">>
                   \o (IF lastExecution.check_context_msg
                       THEN <<" Please check your context for the previous result.">>
                       ELSE <<>>))
           /\ ~lastExecution.effect.executed
           /\ ~lastExecution.effect.asked
           /\ recent_tool_calls = lastExecution.window

\* a repeated file_read was rejected without the context-check suffix
C14_Witness ==
    /\ LastCallIsKnown
    /\ LastCallWasRedundant
    /\ lastExecution.tool_name = "file_read"
    /\ ~lastExecution.check_context_msg
    /\ Len(lastExecution.effect.result.error) = 3
    /\ ~lastExecution.effect.executed

\* the arguments of raw call c as the model supplied them
RawArguments(c) ==
    IF c.function = <<>> /\ "name" \in DOMAIN c THEN c.arguments ELSE c.function.arguments

\* arguments given as a string (JSON or malformed text) or as a native mapping
IsWellFormedCall(c) == RawArguments(c).form \in {"native", "str"}

\* C15: for every well-formed tool call (arguments a JSON string, a native
\* mapping or malformed text; id present or absent) _normalize_tool_call raises
\* nothing and returns a callId that is the supplied id, or a generated id when
\* the call carries none.
C15_NormalizationIsTotal ==
    \A i \in 1..Len(normalized) :
        IsWellFormedCall(raw_batch[i])
            => /\ normalized[i].raised = "none"
               /\ normalized[i].call_id \notin {NoId, ""}
               /\ raw_batch[i].id # NoId => normalized[i].call_id = raw_batch[i].id
               /\ raw_batch[i].id = NoId
                    => \E t \in 0..clock : normalized[i].call_id = auto_id(t)

\* a call without id whose arguments are the malformed text x=1 was normalized
\* in the second second
C15_Witness ==
    \E i \in 1..Len(normalized) :
        /\ raw_batch[i].id = NoId
        /\ RawArguments(raw_batch[i]) = Str(<<"x", "=", "1">>)
        /\ normalized[i].raised = "none"
        /\ normalized[i].call_id = auto_id(1)
        /\ normalized[i].arguments = Dict(<<<<"raw_args", "x=1">>>>)

\* text without the braces around it: arguments_raw.strip("{}")
RECURSIVE StripBraces(_)
StripBraces(text) ==
    IF text # <<>> /\ Head(text) \in {"{", "}"} THEN StripBraces(Tail(text))
    ELSE IF text # <<>> /\ text[Len(text)] \in {"{", "}"}
    THEN StripBraces(SubSeq(text, 1, Len(text) - 1))
    ELSE text

\* text without the blanks and quotes around it
RECURSIVE StripQuotes(_)
StripQuotes(text) ==
    IF text # <<>> /\ Head(text) \in {" ", "'", DQ} THEN StripQuotes(Tail(text))
    ELSE IF text # <<>> /\ text[Len(text)] \in {" ", "'", DQ}
    THEN StripQuotes(SubSeq(text, 1, Len(text) - 1))
    ELSE text

\* the key:value pieces of a text split on commas
NaivePairs(text) ==
    LET pieces == Split(StripBraces(text), ",")
    IN SelectSeq(pieces, LAMBDA piece : \E i \in 1..Len(piece) : piece[i] = ":")

\* naive key:value extraction: each pair is split on its first colon and the
\* quotes are stripped
NaiveExtraction(text) ==
    LET pairs == NaivePairs(text)
    IN Dict([i \in 1..Len(pairs) |->
            LET halves == Split(pairs[i], ":")
            IN <<Join(StripQuotes(halves[1])),
                 Join(StripQuotes(SubSeq(pairs[i], Len(halves[1]) + 2, Len(pairs[i]))))>>])

\* the arguments the fallback chain resolves to: native mapping, strict JSON,
\* JSON with the single quotes replaced, naive key:value extraction, raw_args
ChainArguments(arguments_raw) ==
    IF arguments_raw.form = "native" THEN arguments_raw.value
    ELSE IF json_loads(arguments_raw).raised = "none" THEN json_loads(arguments_raw).value
    ELSE IF json_loads(replace_quotes(arguments_raw)).raised = "none"
    THEN json_loads(replace_quotes(arguments_raw)).value
    ELSE IF NaivePairs(arguments_raw.text) # <<>> THEN NaiveExtraction(arguments_raw.text)
    ELSE Dict(<<<<"raw_args", Join(arguments_raw.text)>>>>)

\* C16: the arguments of a normalized call are those of the first step that
\* succeeds among: native mapping as-is, strict JSON parse, JSON parse with single
\* quotes replaced by double quotes, naive key:value extraction, and otherwise
\* {"raw_args": rawString}.
C16_ArgumentFallbackChain ==
    \A i \in 1..Len(normalized) :
        IsWellFormedCall(raw_batch[i])
            => LET expected == ChainArguments(RawArguments(raw_batch[i]))
               IN /\ normalized[i].arguments.type = expected.type
                  /\ ItemSet(normalized[i].arguments.items) = ItemSet(expected.items)

\* the calls of the batch whose normalized toolName is the empty string
UnnamedCalls == {i \in 1..Len(tool_calls) : CallName(i) = ""}

\* C17: a call whose normalized toolName is the empty string is skipped in both
\* modes: it is not passed to the dispatcher, not executed, not recorded in the
\* redundancy window and not part of the consolidated permission request, and
\* the other calls of the batch are still processed.
C17_UnnamedCallSkipped ==
    /\ \A i \in UnnamedCalls :
          /\ i \notin executed
          /\ i \notin DOMAIN futures
          /\ i \notin ProtectedCalls(tool_calls)
          /\ \A e \in gate_log : e[1] # i
          /\ ToolMessagesFor(messages, batchStart, CallId(i)) = {}
    /\ \A k \in 1..Len(recent_tool_calls) : recent_tool_calls[k][1] # ""
    /\ (UnnamedCalls # {} /\ outcome = "returned" /\ NothingDenied)
          => \A j \in WellFormedCalls(tool_calls) :
                ToolMessagesFor(messages, batchStart, CallId(j)) # {}

\* a parallel batch of an unnamed call and a file_read has returned: only the
\* file_read was executed and answered
C17_Witness ==
    /\ parallel_tools
    /\ Len(tool_calls) = 2
    /\ UnnamedCalls = {1}
    /\ outcome = "returned"
    /\ executed = {2}
    /\ ToolMessagesFor(messages, batchStart, CallId(2)) # {}

\* C18: the arguments of every normalized call are a mapping, also when the
\* payload is a JSON string for a list, a number, a string or null.
C18_ArgumentsAlwaysMapping ==
    \A i \in 1..Len(normalized) :
        IsWellFormedCall(raw_batch[i]) => normalized[i].arguments.type = "dict"

\* the calls of the batch that the loop queues: normalized without an exception
\* and with a tool name
QueuedCalls == {i \in 1..Len(normalized) : normalized[i].raised = "none"
                                           /\ normalized[i].tool_name # ""}

\* C19: the normalized calls of one batch have pairwise distinct callIds, also
\* when two or more of them carry no id and the ids are generated. Stated here
\* for batches in which the ids the model supplied are pairwise distinct.
C19_CallIdsDistinctInBatch ==
    (\A i, j \in 1..Len(raw_batch) :
        (i # j /\ raw_batch[i].id # NoId) => raw_batch[i].id # raw_batch[j].id)
        => \A i, j \in QueuedCalls : i # j => normalized[i].call_id # normalized[j].call_id

\* log is one system message followed by 10 alternating user/assistant messages
IsSystemPlusTenAlternating(log) ==
    /\ Len(log) = 11
    /\ log[1].role = "system"
    /\ \A i \in 2..11 : log[i].role = (IF i % 2 = 0 THEN "user" ELSE "assistant")

\* the smallest element of a non-empty set of numbers
Least(S) == CHOOSE i \in S : \A j \in S : i <= j

\* [first system message if any, first user message, compaction notice, last 6
\* messages of log]
CompactedForm(log) ==
    LET systems == {i \in 1..Len(log) : log[i].role = "system"}
        users == {i \in 1..Len(log) : log[i].role = "user"}
        kept == IF Len(log) < 6 THEN Len(log) ELSE 6
    IN (IF systems = {} THEN <<>> ELSE <<log[Least(systems)]>>)
         \o (IF users = {} THEN <<>> ELSE <<log[Least(users)]>>)
         \o <<[role |-> "system", content |-> "compaction_notice", tool_call_id |-> "",
               name |-> "", tool_calls |-> <<>>, function_call |-> <<>>]>>
         \o [k \in 1..kept |-> log[Len(log) - kept + k]]

\* C20: compact_conversation returns the log unchanged when it has fewer than 4
\* messages, and otherwise exactly the first system message if any, the first
\* user message, one compaction notice and the last 6 messages of the log; for
\* one system message followed by 10 alternating user/assistant messages the
\* result has length 9.
C20_CompactionShape ==
    lastCompaction.done
        => /\ Len(lastCompaction.before) < 4 => lastCompaction.after = lastCompaction.before
           /\ Len(lastCompaction.before) >= 4
                => lastCompaction.after = CompactedForm(lastCompaction.before)
           /\ IsSystemPlusTenAlternating(lastCompaction.before)
                => Len(lastCompaction.after) = 9

\* a log of one system message and 10 alternating messages was compacted to 9
C20_Witness ==
    /\ lastCompaction.done
    /\ IsSystemPlusTenAlternating(lastCompaction.before)
    /\ Len(lastCompaction.after) = 9
    /\ messages = lastCompaction.after
    /\ lastCompaction.after[3] = CompactionNotice
    /\ lastCompaction.after[4] = lastCompaction.before[6]

\* the compaction notices in log
Notices(log) == {i \in 1..Len(log) : log[i] = CompactionNotice}

\* C21: after any sequence of appended messages and compactions the log holds at
\* most one compaction-notice system message.
C21_AtMostOneNotice == Cardinality(Notices(messages)) <= 1

\* should_compact() evaluated in the current state
ShouldCompactNow ==
    should_compact(clock, last_compaction_time, estimated_tokens, context_size)

\* C22: should_compact() is true exactly when estimated_tokens / context_size
\* is strictly greater than 0.95 (19/20) and at least 300 seconds have passed
\* since the last compaction, and two automatic compactions that changed the log
\* are at least 300 seconds apart.
C22_CompactionTrigger ==
    /\ ShouldCompactNow
          <=> /\ 20 * estimated_tokens > 19 * context_size
              /\ clock - last_compaction_time >= 300
    /\ \A i, j \in 1..Len(autoTimes) : i < j => autoTimes[j] - autoTimes[i] >= 300

\* two automatic compactions changed the log, exactly 300 seconds apart
C22_Witness ==
    /\ Len(autoTimes) = 2
    /\ autoTimes[2] - autoTimes[1] = 300
    /\ lastCompaction.after # lastCompaction.before

\* what each message of the log adds to the estimate
Contributions(cache, log) == estimate_loop(cache, log).counts

SameKey(m1, m2) == m1.role = m2.role /\ m1.content = m2.content

\* the estimate does not go down when message is appended to log, and messages
\* of log with the same (role, content) add the same amount
EstimateIsMonotone(cache, log) ==
    \E estimate \in {estimate_tokens(cache, log)}, counts \in {Contributions(cache, log)} :
       /\ \A message \in BudgetMessages :
             /\ estimate_tokens(cache, Append(log, message)).tokens >= estimate.tokens
             /\ estimate_tokens(estimate.cache, Append(log, message)).tokens >= estimate.tokens
       /\ \A i, j \in 1..Len(log) : SameKey(log[i], log[j]) => counts[i] = counts[j]

\* C23: for the log L and every message m, estimate(L + [m]) >= estimate(L), and
\* messages with the same (role, content) contribute the same amount each, with
\* the cache as it is (warm) and with an empty (cold) cache.
C23_EstimateMonotone ==
    /\ EstimateIsMonotone(_token_cache, messages)
    /\ EstimateIsMonotone(EmptyCache, messages)

\* the log holds two assistant messages with the same (role, content) and tool
\* calls of different sizes, and the cache is warm
C23_Witness ==
    /\ _token_cache # EmptyCache
    /\ \E i, j \in 1..Len(messages) :
          /\ i < j
          /\ SameKey(messages[i], messages[j])
          /\ message_tokens(messages[i]) # message_tokens(messages[j])
          /\ Contributions(_token_cache, messages)[i] = Contributions(_token_cache, messages)[j]

\* the tool-role messages of log after position from, oldest first
ToolMessagesAfter(log, from) ==
    SelectSeq(SubSeq(log, from + 1, Len(log)), LAMBDA m : m.role = "tool")

\* the indices of the calls that have a tool name, in the order of the batch
ValidOrder(calls) ==
    SelectSeq([i \in 1..Len(calls) |-> i], LAMBDA i : i \in ValidCalls(calls))

\* the batch found in the last response is dispatched sequentially
SequentialBatch == tool_calls # <<>> /\ ~UsesParallel(tool_calls)

\* C25: within a sequential batch the tool-role messages are appended in the
\* order the model supplied the calls: the i-th appended result belongs to the
\* i-th valid call (it carries its call id and its tool name).
C25_SequentialOrder ==
    SequentialBatch
        => LET results == ToolMessagesAfter(messages, batchStart)
               valid == ValidOrder(tool_calls)
           IN /\ Len(results) <= Len(valid)
              /\ \A k \in 1..Len(results) :
                    /\ k <= Len(valid)
                    /\ results[k].tool_call_id = CallId(valid[k])
                    /\ results[k].name = CallName(valid[k])

\* s is an initial part of t
IsPrefix(s, t) == Len(s) <= Len(t) /\ SubSeq(t, 1, Len(s)) = s

\* the step ran a compaction
CompactionStep ==
    \/ last_compaction_time' # last_compaction_time
    \/ compactions' # compactions

\* C27: outside compaction the log is append-only: every step that changes the
\* log and is no compaction keeps every message at its index with its content
\* and only appends at the end.
C27_LogAppendOnly ==
    [][(messages' # messages /\ ~CompactionStep) => IsPrefix(messages, messages')]_vars

\* calls i and j of the batch are the same call for the redundancy filter
SameForFilter(i, j) ==
    LET c == _normalize_tool_call(tool_calls[i], clock)
        d == _normalize_tool_call(tool_calls[j], clock)
    IN /\ c.tool_name = d.tool_name
       /\ c.tool_name \in DOMAIN tools
       /\ c.arguments.type = "dict"
       /\ d.arguments.type = "dict"
       /\ \/ c.tool_name = "ls"
          \/ sorted(c.arguments.items) = sorted(d.arguments.items)

\* C29: the redundancy window is accessed by one worker at a time, so of two
\* calls of one parallel batch that are the same call for the filter at most one
\* executes its tool.
C29_WindowAccessSerialized ==
    \A i, j \in DOMAIN futures :
        (i # j /\ SameForFilter(i, j)) => ~(i \in executed /\ j \in executed)

\* the orchestrator is at the prompt and the loop top has nothing to compact
AwaitingInput == pc = "input" /\ ~ShouldCompactNow

\* C28: whenever the orchestrator is awaiting user input, estimated_tokens is
\* the estimate of the current message log, after any sequence of turns, tool
\* batches, permission denials and interrupts, an interrupt during a tool batch
\* included.
C28_TokensFollowLog ==
    AwaitingInput => estimated_tokens = estimate_tokens(_token_cache, messages).tokens

\* the step takes the finished future of call i and appends its result
Appends(i) ==
    /\ pc = "workers"
    /\ i \in DOMAIN futures
    /\ futures[i].state = "done"
    /\ futures'[i].state = "collected"
    /\ messages' # messages

\* the appended message carries the call id, the tool name and the result of call i
AttributedTo(i) ==
    messages' = Append(messages, ToolMessage(CallId(i), CallName(i), futures[i].result))

\* no result of the batch has been appended yet
NothingAppended == ToolMessagesAfter(messages, batchStart) = <<>>

\* call i finished first, or the call that finished first raised and has no result
FinishedFirst(i) ==
    futures[first_finished].raised = "none" => i = first_finished

\* C26: within a parallel batch the tool-role messages are appended in the
\* order the executions complete, and each appended message carries the call id
\* and the tool name of the call whose result it contains. The order is stated
\* for the first message of the batch: it is the result of the call that
\* finished first.
C26_CompletionOrder ==
    [][\A i \in DOMAIN futures :
          Appends(i) => (AttributedTo(i) /\ (NothingAppended => FinishedFirst(i)))]_vars

\* the half of it about attribution
ResultsAttributed ==
    [][\A i \in DOMAIN futures : Appends(i) => AttributedTo(i)]_vars

\* the log holds one user message, the first input of the run, and the model
\* answered it with a batch of two calls to known tools that need no
\* confirmation and that the filter tells apart (the window was empty)
FirstTurnOfTwoCalls ==
    /\ Len(messages) >= 3
    /\ {k \in 1..Len(messages) : messages[k].role = "user"} = {2}
    /\ batchStart = 3
    /\ messages[3] = AssistantMessage(Response("", tool_calls, <<>>, FALSE))
    /\ Len(tool_calls) = 2
    /\ \A i \in 1..2 : CallName(i) \in DOMAIN tools /\ ~tools[CallName(i)]
    /\ tool_calls[1] # tool_calls[2]
    /\ ~SameForFilter(1, 2)

\* the dispatch of the batch returned and the follow-up request was answered
\* with a response that carries no calls
FollowUpWasText ==
    /\ outcome = "returned"
    /\ lastEvent = "response"
    /\ pc # "followup"

\* C24: when a user message is answered by one tool_calls response with 2 known,
\* non-confirming, non-redundant calls and the follow-up answer is plain text,
\* the log gains the user message, the assistant message with the calls, exactly
\* two tool-role messages (one per call, in either order) and the plain-text
\* assistant message once; two model requests are sent and the orchestrator
\* awaits user input.
C24_TwoCallTurn ==
    (FirstTurnOfTwoCalls /\ FollowUpWasText)
        => /\ Len(messages) = 6
           /\ \A i \in 1..2 :
                 \E k \in {4, 5} :
                    /\ messages[k].role = "tool"
                    /\ messages[k].tool_call_id = CallId(i)
                    /\ messages[k].name = CallName(i)
                    /\ messages[9 - k].tool_call_id = CallId(3 - i)
           /\ \E text \in TextResponses : messages[6] = AssistantMessage(text)
           /\ sends = 2
           /\ pc = "input"

\* C30: during a parallel batch at most min(number of calls, 5) tool executions
\* are in progress, a queued call starts only when a pool thread is free, and
\* every submitted call is eventually executed.
C30_PoolBound ==
    /\ [](Cardinality(Running) <= 5 /\ Cardinality(Running) <= Len(tool_calls))
    /\ [][\A i \in DOMAIN futures :
             (futures[i].state = "queued" /\ futures'[i].state # "queued")
                 => Cardinality(Running) < 5]_vars
    /\ <>(\A i \in 1..PoolCalls : futures[i].state = "done")

\* five calls are in progress and the sixth waits in the queue
C30_Witness ==
    /\ Cardinality(Running) = 5
    /\ \E i \in DOMAIN futures : futures[i].state = "queued"
    /\ Len(tool_calls) > 5

\* the tool names of the protected calls of the batch, in batch order
ProtectedNames(calls) ==
    LET names[i \in 0..Len(calls)] ==
            IF i = 0 THEN <<>>
            ELSE IF i \in ProtectedCalls(calls)
            THEN Append(names[i - 1], _normalize_tool_call(calls[i], clock).tool_name)
            ELSE names[i - 1]
    IN names[Len(calls)]

\* the parallel dispatcher is past the point where it asks for approval
PastApproval ==
    /\ UsesParallel(tool_calls)
    /\ pc = "workers" \/ outcome \in {"denied", "crashed", "returned"}

\* C31: in a parallel batch the consolidated approval request is issued exactly
\* once when a normalized call names a known tool that requires confirmation and
\* not at all otherwise; it lists every such call, carries the batch identifier
\* that the workers get too, and is answered before any tool of the batch runs.
C31_ConsolidatedApproval ==
    /\ [](PastApproval
            => /\ Len(prompted) = (IF ProtectedCalls(tool_calls) # {} THEN 1 ELSE 0)
               /\ \A k \in 1..Len(prompted) :
                     /\ [e \in 1..Len(prompted[k].protected_tools) |->
                            prompted[k].protected_tools[e].tool_name]
                          = ProtectedNames(tool_calls)
                     /\ prompted[k].batch_id = NewBatchId
                     /\ futures # NoFutures => batch_id = prompted[k].batch_id)
    /\ [][prompted' # prompted /\ prompted' # <<>>
            => executed = {} /\ executed' = {} /\ futures = NoFutures]_vars

\* execute_tool called again at once with the call of the last execute_tool
Retry(context_msg, answer, tool_outcome) ==
    execute_tool(recent_tool_calls, lastExecution.tool_name, lastExecution.arguments,
                 context_msg, "", answer, tool_outcome)

\* C32: execute_tool records every call that names a known tool and is not
\* redundant, whatever the gate answers and whatever the tool does afterwards;
\* the same call made again at once is reported redundant and is neither put
\* to the gate nor executed.
C32_RecordedBeforeGate ==
    (LastCallIsKnown /\ ~LastCallWasRedundant)
        => /\ lastExecution.effect.recorded
           /\ recent_tool_calls # <<>>
           /\ recent_tool_calls[Len(recent_tool_calls)]
                = current_call(lastExecution.tool_name, lastExecution.arguments)
           /\ \A context_msg \in BOOLEAN, answer \in GateAnswers, tool_outcome \in DispatchOutcomes :
                 /\ Retry(context_msg, answer, tool_outcome).result
                      = _handle_redundant_call(lastExecution.tool_name, context_msg)
                 /\ ~Retry(context_msg, answer, tool_outcome).asked
                 /\ ~Retry(context_msg, answer, tool_outcome).executed
                 /\ Retry(context_msg, answer, tool_outcome).window = recent_tool_calls

\* the gate refused a bash call that the window did not hold: the call is in
\* the window although it was not executed
C32_Witness ==
    /\ LastCallIsKnown
    /\ ~LastCallWasRedundant
    /\ LastCallWasRefused
    /\ lastExecution.window # <<>>
    /\ ~lastExecution.effect.executed
    /\ lastExecution.effect.recorded
    /\ recent_tool_calls[Len(recent_tool_calls)] = current_call("bash", lastExecution.arguments)

\* an interrupted response has just been received
InterruptedArrives ==
    /\ pc \in {"sending", "followup"}
    /\ lastEvent' \in {"interrupted_initial", "interrupted_followup"}

\* the log holds the assistant message of a response that was flagged interrupted
HoldsFlaggedResponse(log) ==
    \E k \in 1..Len(log), response \in InterruptedResponses :
        /\ log[k] = AssistantMessage(response)
        /\ log[k] # SentinelMessage

\* C33: a response flagged interrupted (the flag, or a content that is one of
\* the three sentinels once trimmed) is dropped: the log stays as it was before
\* the response arrived, no tool call of it is taken up, normalized or executed,
\* and no follow-up request is sent.
C33_InterruptedResponseDropped ==
    /\ [](~HoldsFlaggedResponse(messages))
    /\ [][InterruptedArrives
            => /\ messages' = messages
               /\ tool_calls' = tool_calls
               /\ issued' = issued
               /\ executed' = executed
               /\ recent_tool_calls' = recent_tool_calls
               /\ sends' = sends
               /\ ~request_in_progress'
               /\ pc' \in {"input", "exited"}]_vars

\* the follow-up request of a turn whose tool ran was answered by a flagged
\* response: the log is the one that was sent
C33_Witness ==
    /\ lastEvent = "interrupted_followup"
    /\ pc = "input"
    /\ outcome = "returned"
    /\ executed # {}
    /\ messages = lastSent
    /\ messages[Len(messages)].role = "tool"

\* the user message of a turn is appended and counted; the request is sent next
\* (lines 539-565)
UserMessageAppended ==
    /\ pc = "input"
    /\ messages' = Append(messages, UserMessage)

\* C34: on user input the user message is appended, then compaction is checked,
\* then the request is sent: no user-initiated request is sent while
\* should_compact() holds for the log being sent.
C34_CompactionCheckedBeforeSend ==
    [][UserMessageAppended
         => ~should_compact(clock', last_compaction_time', estimated_tokens', context_size')]_vars

\* the log ends with the sentinel that a raised denial appends (lines 293-296)
EndsWithSentinel(log) == log # <<>> /\ log[Len(log)] = SentinelMessage

\* C35: the permission-denial sentinel never reaches the model: no message list
\* passed to model_client.send holds a message with the sentinel as content, and
\* the user input that follows a raised denial replaces the sentinel by the
\* explanatory assistant message before the user message is appended.
C35_SentinelNeverSent ==
    /\ [](\A k \in 1..Len(lastSent) : strip(lastSent[k].content) # PermissionDenialSentinel)
    /\ [][(pc = "input" /\ pc' = "sending" /\ EndsWithSentinel(messages))
            => messages' = Append([messages EXCEPT ![Len(messages)] = UnderstoodMessage],
                                  UserMessage)]_vars

\* the request of the turn after a raised denial is in flight: it carries the
\* explanatory message where the sentinel was
C35_Witness ==
    /\ pc = "sending"
    /\ Len(lastSent) >= 2
    /\ lastSent[Len(lastSent) - 1] = UnderstoodMessage
    /\ lastSent[Len(lastSent)] = UserMessage
    /\ \E i \in DOMAIN tool_calls : <<i, "raise">> \in gate_log

\* every tool-role message of log comes after an assistant message whose tool
\* calls include its tool_call_id
Attached(log) ==
    \A k \in 1..Len(log) :
        log[k].role = "tool"
            => \E j \in 1..(k - 1) :
                  /\ log[j].role = "assistant"
                  /\ \E c \in 1..Len(log[j].tool_calls) :
                        log[j].tool_calls[c].id = log[k].tool_call_id

\* C36: compaction keeps tool results attached to their calls: when every
\* tool-role message of the log follows the assistant message that issued its
\* call, the same holds in the log that compact_conversation returns.
C36_CompactionKeepsCallsAttached ==
    (lastCompaction.done /\ Attached(lastCompaction.before))
        => Attached(lastCompaction.after)

\* C37: compaction never lengthens the log: the log that compact_conversation
\* returns has at most as many messages as the log it was given.
C37_CompactionNeverLengthens ==
    lastCompaction.done => Len(lastCompaction.after) <= Len(lastCompaction.before)

\* C38: the token cache never changes an estimate: with the cache that earlier
\* estimate_tokens calls have filled, estimate_tokens returns for the log the
\* value it returns with an empty cache.
C38_CacheNeverChangesEstimate ==
    estimate_tokens(_token_cache, messages).tokens = estimate_tokens(EmptyCache, messages).tokens

\* C39: a parallel batch of two or more calls that all normalize to an empty
\* tool name is handled without an error: the dispatcher raises nothing,
\* executes no tool, appends no tool-role message and returns, and the turn
\* goes on.
C39_EmptyParallelBatchHandled ==
    (PastApproval /\ ValidCalls(tool_calls) = {})
        => /\ outcome = "returned"
           /\ pc # "crashed"
           /\ executed = {}
           /\ \A j \in (batchStart + 1)..Len(messages) : messages[j].role # "tool"

\* control is inside a turn: a request is in flight or a batch is dispatched
InTurn == pc \notin {"input", "exited"}

\* process_llm_response has returned to the loop of run_conversation: no request
\* is in flight and no call of the batch is queued or running in the pool
TurnOver ==
    /\ pc \in {"input", "exited"}
    /\ \A i \in DOMAIN futures : futures[i].state = "collected"

\* C40: every turn terminates: when each tool execution returns, each permission
\* request is answered and the model ends up answering without tool calls,
\* process_llm_response returns after finitely many follow-up requests, with no
\* request in flight and no worker still running.
C40_TurnTerminates == InTurn ~> TurnOver

====
